---- MODULE Spec2Model ----
(***************************************************************************)
(* Model of the web analyzer's analysis service: the cache-aside           *)
(* orchestration of internal/service/application_service.go over the       *)
(* PostgreSQL repository and the KeyDB cache repository, the in-memory     *)
(* repository, the HTTP handler that reports FetchAnalysis failures, and   *)
(* the two outbound adapters: the web page fetcher and the link checker,   *)
(* each behind its own gobreaker circuit breaker.                          *)
(***************************************************************************)
EXTENDS Integers, Sequences, FiniteSets, TLC

VARIABLES
    analysis,   \* rows of the PostgreSQL table "analysis"
    cache,      \* KeyDB: analysis id -> <<>> (no key) or <<stored bytes>>
    issued,     \* ids handed out by uuid.New() so far
    history,    \* record of the states the durable store has held (when kept)
    pc,         \* per request: position inside the service call
    op,         \* per request: the operation being executed
    arg,        \* per request: the url or analysis id passed in
    local,      \* per request: the *domain.Analysis held by the call (nil = <<>>)
    calls,      \* per request: collaborator calls made by the current call
    ret,        \* per request: what the call returned
    started,    \* per request: the Analysis its last StartAnalysis returned, while unwritten
    events,     \* per request: the channel returned by FetchAnalysisEvents
    data,       \* InMemoryAnalysisRepository.data
    clock,      \* time.Now(), in ticks
    fetcherCB,  \* WebPageFetcher.circuitBreaker
    clientTimeout, \* the timeout set on WebPageFetcher.client
    fetch,      \* per request: its Fetch call
    linkCB,     \* LinkChecker.circuitBreaker
    check,      \* the CheckAccessibility call in progress and its goroutines
    executing,  \* a breaker and the Execute calls in flight on it
    extract,    \* the last HTMLParser.ExtractLinks call and what it returned
    stream,     \* per request: the HTTP handler consuming its event channel
    floor,      \* per request: the latest status any call had returned when it started
    lcConfig,   \* LinkChecker.config
    ctxDone,    \* whether the context of the CheckAccessibility call is cancelled
    run         \* ServiceCtx.Run, its goroutines and the process's signals

adapterVars == <<clock, fetcherCB, clientTimeout, fetch, linkCB, check, executing>>

rtVars == <<extract, stream, floor, lcConfig, ctxDone, run>>

vars == <<analysis, cache, issued, history, pc, op, arg, local, calls, ret,
          started, events, data, adapterVars, rtVars>>

svcVars == <<analysis, cache, issued, history, pc, op, arg, local, calls, ret,
             started, events>>

-----------------------------------------------------------------------------
(* Bounds and input sets *)

\* Number of records StartAnalysis can create
MaxIds == 1

\* The analysis ids requests can name: the ids uuid.New() hands out, in the
\* order it hands them out (an id names no record before its Save and after
\* its Delete)
Ids == 1..MaxIds

NewUUID(used) == Cardinality(used) + 1

Procs == {"r1", "r2"}

\* The urls submitted for analysis, and the urls an update's record may carry
SubmittedURLs == {"https://example.com"}

URLs == SubmittedURLs \cup {"https://example.org"}

\* time.Now() readings in nanoseconds
Clock == {1500}

\* Go nil pointer / SQL NULL / absent key: the empty sequence; &v: <<v>>
Nil == <<>>

Ptr(v) == <<v>>

-----------------------------------------------------------------------------
(* domain types *)

StatusRequested == "requested"

StatusInProgress == "in_progress"

StatusCompleted == "completed"

StatusFailed == "failed"

AnalysisStatus == {StatusRequested, StatusInProgress, StatusCompleted, StatusFailed}

EventTypeStarted == "analysis_started"

EventTypeProgress == "analysis_progress"

EventTypeCompleted == "analysis_completed"

EventTypeFailed == "analysis_failed"

ErrAnalysisNotFound == "analysis not found"

ErrCacheUnavailable == "cache service unavailable"

\* An error value is its Unwrap chain, outermost message first; nil is <<>>.
NoError == <<>>

Errorf(msg, cause) == <<msg>> \o cause

ErrorsIs(err, target) == \E i \in DOMAIN err : err[i] = target

DriverError == <<"driver: bad connection">>

RedisError == <<"redis: connection refused">>

SampleResults == [HTMLVersion |-> "HTML5", Title |-> "Example Title"]

SampleError == [Code |-> "URL_NOT_REACHABLE", Message |-> "URL is not reachable",
                StatusCode |-> 0, Details |-> ""]

\* The Analysis values a caller can hand to an update: every status, with the
\* completion fields a record of that status carries.
MkAnalysis(id, url, st, created) ==
    [ID |-> id, URL |-> url, Status |-> st, CreatedAt |-> created,
     CompletedAt |-> IF st \in {StatusCompleted, StatusFailed} THEN Ptr(9000) ELSE Nil,
     Duration |-> IF st \in {StatusCompleted, StatusFailed} THEN Ptr(1500000) ELSE Nil,
     Results |-> IF st = StatusCompleted THEN Ptr(SampleResults) ELSE Nil,
     Error |-> IF st = StatusFailed THEN Ptr(SampleError) ELSE Nil]

AnalysisInputs ==
    {MkAnalysis(id, url, st, 1000) : id \in Ids, url \in URLs, st \in AnalysisStatus}

-----------------------------------------------------------------------------
(* encoding/json of domain.Analysis, field by field, with omitempty *)

MarshalError(e) ==
    [code |-> e.Code, message |-> e.Message]
    @@ (IF e.StatusCode # 0 THEN [status_code |-> e.StatusCode] ELSE <<>>)
    @@ (IF e.Details # "" THEN [details |-> e.Details] ELSE <<>>)

UnmarshalError(j) ==
    [Code |-> j.code, Message |-> j.message,
     StatusCode |-> IF "status_code" \in DOMAIN j THEN j.status_code ELSE 0,
     Details |-> IF "details" \in DOMAIN j THEN j.details ELSE ""]

MarshalResults(r) == [html_version |-> r.HTMLVersion, title |-> r.Title]

UnmarshalResults(j) == [HTMLVersion |-> j.html_version, Title |-> j.title]

Marshal(a) ==
    [analysis_id |-> a.ID, url |-> a.URL, status |-> a.Status,
     created_at |-> a.CreatedAt]
    @@ (IF a.CompletedAt # Nil THEN [completed_at |-> a.CompletedAt[1]] ELSE <<>>)
    @@ (IF a.Duration # Nil THEN [duration |-> a.Duration[1]] ELSE <<>>)
    @@ (IF a.Results # Nil THEN [results |-> MarshalResults(a.Results[1])] ELSE <<>>)
    @@ (IF a.Error # Nil THEN [error |-> MarshalError(a.Error[1])] ELSE <<>>)

\* Variant: the status field is not read back
UnmarshalWithoutStatus(j) ==
    [ID |-> j.analysis_id, URL |-> j.url, Status |-> "",
     CreatedAt |-> j.created_at,
     CompletedAt |-> IF "completed_at" \in DOMAIN j THEN Ptr(j.completed_at) ELSE Nil,
     Duration |-> IF "duration" \in DOMAIN j THEN Ptr(j.duration) ELSE Nil,
     Results |-> IF "results" \in DOMAIN j THEN Ptr(UnmarshalResults(j.results)) ELSE Nil,
     Error |-> IF "error" \in DOMAIN j THEN Ptr(UnmarshalError(j.error)) ELSE Nil]

Unmarshal(j) ==
    [ID |-> j.analysis_id, URL |-> j.url, Status |-> j.status,
     CreatedAt |-> j.created_at,
     CompletedAt |-> IF "completed_at" \in DOMAIN j THEN Ptr(j.completed_at) ELSE Nil,
     Duration |-> IF "duration" \in DOMAIN j THEN Ptr(j.duration) ELSE Nil,
     Results |-> IF "results" \in DOMAIN j THEN Ptr(UnmarshalResults(j.results)) ELSE Nil,
     Error |-> IF "error" \in DOMAIN j THEN Ptr(UnmarshalError(j.error)) ELSE Nil]

\* Bytes under a cache key that are not a JSON document of an Analysis.
Garbage == [garbage |-> TRUE]

IsJSON(bytes) == "analysis_id" \in DOMAIN bytes

-----------------------------------------------------------------------------
(* PostgresRepository: rows of table analysis and the column conversions *)

\* TIMESTAMPTZ keeps microseconds
ToTimestamptz(ns) == (ns \div 1000) * 1000

\* The row INSERTed by Save: the columns not named take their defaults (NULL)
InsertedRow(id, url, now) ==
    [id |-> id, url |-> url, status |-> StatusRequested,
     created_at |-> ToTimestamptz(now),
     completed_at |-> Nil, duration_ms |-> Nil, results |-> Nil,
     error_code |-> Nil, error_message |-> Nil, error_status_code |-> Nil,
     error_details |-> Nil]

\* Variant: Save returns its own time.Now() instead of the stored created_at
SavedAnalysisLocalClock(id, url, now) ==
    [ID |-> id, URL |-> url, Status |-> StatusRequested,
     CreatedAt |-> now,
     CompletedAt |-> Nil, Duration |-> Nil, Results |-> Nil, Error |-> Nil]

\* The Analysis Save returns: ID and CreatedAt are scanned back from RETURNING
SavedAnalysis(id, url, now) ==
    [ID |-> id, URL |-> url, Status |-> StatusRequested,
     CreatedAt |-> ToTimestamptz(now),
     CompletedAt |-> Nil, Duration |-> Nil, Results |-> Nil, Error |-> Nil]

\* Variant: Find scans the row without its created_at column
ScanRowWithoutCreatedAt(row) ==
    [ID |-> row.id, URL |-> row.url, Status |-> row.status,
     CreatedAt |-> 0,
     CompletedAt |-> row.completed_at,
     Duration |-> IF row.duration_ms # Nil THEN Ptr(row.duration_ms[1] * 1000000) ELSE Nil,
     Results |-> IF row.results # Nil THEN Ptr(UnmarshalResults(row.results[1])) ELSE Nil,
     Error |-> Nil]

\* The row Find scans, converted to an Analysis
ScanRow(row) ==
    [ID |-> row.id, URL |-> row.url, Status |-> row.status,
     CreatedAt |-> row.created_at,
     CompletedAt |-> row.completed_at,
     Duration |-> IF row.duration_ms # Nil THEN Ptr(row.duration_ms[1] * 1000000) ELSE Nil,
     Results |-> IF row.results # Nil THEN Ptr(UnmarshalResults(row.results[1])) ELSE Nil,
     Error |-> IF row.error_code # Nil
               THEN Ptr([Code |-> row.error_code[1],
                         Message |-> IF row.error_message # Nil
                                     THEN row.error_message[1] ELSE "",
                         StatusCode |-> IF row.error_status_code # Nil
                                        THEN row.error_status_code[1] ELSE 0,
                         Details |-> IF row.error_details # Nil
                                     THEN row.error_details[1] ELSE ""])
               ELSE Nil]

\* UPDATE analysis SET status, completed_at, ... WHERE id = $1
UpdatedRow(row, a) ==
    [row EXCEPT
        !.status = a.Status,
        !.completed_at = a.CompletedAt,
        !.duration_ms = IF a.Duration # Nil THEN Ptr(a.Duration[1] \div 1000000) ELSE Nil,
        !.results = IF a.Results # Nil THEN Ptr(MarshalResults(a.Results[1])) ELSE Nil,
        !.error_code = IF a.Error # Nil THEN Ptr(a.Error[1].Code) ELSE Nil,
        !.error_message = IF a.Error # Nil THEN Ptr(a.Error[1].Message) ELSE Nil,
        !.error_status_code = IF a.Error # Nil /\ a.Error[1].StatusCode # 0
                              THEN Ptr(a.Error[1].StatusCode) ELSE Nil,
        !.error_details = IF a.Error # Nil /\ a.Error[1].Details # ""
                          THEN Ptr(a.Error[1].Details) ELSE Nil]

RowsWithId(id) == {row \in analysis : row.id = id}

\* What Find returns for the id against the current table: <<analysis, err>>
PostgresFind(id) ==
    IF RowsWithId(id) = {}
    THEN <<Nil, <<"analysis with ID not found">> >>
    ELSE <<Ptr(ScanRow(CHOOSE row \in RowsWithId(id) : TRUE)), NoError>>

PostgresFindFailed == <<Nil, Errorf("failed to query analysis", DriverError)>>

PostgresSaveFailed == <<Nil, Errorf("failed to save analysis", DriverError)>>

DurableStates == {ScanRow(row) : row \in analysis}

-----------------------------------------------------------------------------
(* gobreaker.CircuitBreaker, as configured and called by the two adapters *)

\* Largest reading of the clock, and the most requests one counting window
\* (generation) of a breaker admits
MaxTime == 4

MaxCounted == 5

\* time.Time{} (IsZero); the clock starts after it
ZeroTime == 0

\* CircuitBreakerConfig of a deployment (MAX_REQUESTS, INTERVAL, TIMEOUT), the
\* durations in clock ticks
CBMaxRequests == 1

CBInterval == 2

CBTimeout == 2

\* gobreaker's fallback when Settings.Timeout <= 0 (60 s), in clock ticks
DefaultCBTimeout == 6

StateClosed == "closed"

StateHalfOpen == "half-open"

StateOpen == "open"

ErrOpenState == [typed |-> FALSE, Code |-> "", StatusCode |-> 0,
                 Message |-> "circuit breaker is open"]

ErrTooManyRequests == [typed |-> FALSE, Code |-> "", StatusCode |-> 0,
                       Message |-> "too many requests"]

FetcherSettingsWithoutTimeout ==
    [Name |-> "web-page-fetcher", MaxRequests |-> CBMaxRequests,
     Interval |-> CBInterval, Timeout |-> 0]

FetcherSettings ==
    [Name |-> "web-page-fetcher", MaxRequests |-> CBMaxRequests,
     Interval |-> CBInterval, Timeout |-> CBTimeout]

LinkCheckerSettings ==
    [Name |-> "link-checker", MaxRequests |-> CBMaxRequests,
     Interval |-> CBInterval, Timeout |-> CBTimeout]

\* float64(TotalFailures) / float64(Requests) >= num/den, for Requests > 0
\* (the quotient of two small integers and the literal round to the same double)
FailureRatioAtLeast(counts, num, den) ==
    counts.TotalFailures * den >= num * counts.Requests

ReadyToTripOnRequests(name, counts) ==
    IF name = "web-page-fetcher" THEN counts.Requests >= 3
    ELSE counts.Requests >= 5

\* Settings.ReadyToTrip of the two breakers
ReadyToTrip(name, counts) ==
    IF name = "web-page-fetcher"
    THEN counts.Requests >= 3 /\ FailureRatioAtLeast(counts, 3, 5)
    ELSE counts.Requests >= 5 /\ FailureRatioAtLeast(counts, 4, 5)

ZeroCounts ==
    [Requests |-> 0, TotalSuccesses |-> 0, TotalFailures |-> 0,
     ConsecutiveSuccesses |-> 0, ConsecutiveFailures |-> 0]

CountsOnRequest(c) == [c EXCEPT !.Requests = @ + 1]

CountsOnSuccess(c) ==
    [c EXCEPT !.TotalSuccesses = @ + 1, !.ConsecutiveSuccesses = @ + 1,
              !.ConsecutiveFailures = 0]

CountsOnFailure(c) ==
    [c EXCEPT !.TotalFailures = @ + 1, !.ConsecutiveFailures = @ + 1,
              !.ConsecutiveSuccesses = 0]

\* NewCircuitBreaker's defaults for unset settings
MaxRequestsOf(st) == IF st.MaxRequests = 0 THEN 1 ELSE st.MaxRequests

IntervalOf(st) == IF st.Interval <= 0 THEN 0 ELSE st.Interval

TimeoutOf(st) == IF st.Timeout <= 0 THEN DefaultCBTimeout ELSE st.Timeout

toNewGeneration(cb, st, t) ==
    [cb EXCEPT !.generation = @ + 1,
               !.counts = ZeroCounts,
               !.expiry = CASE cb.state = StateClosed ->
                                 IF IntervalOf(st) = 0 THEN ZeroTime
                                 ELSE t + IntervalOf(st)
                            [] cb.state = StateOpen -> t + TimeoutOf(st)
                            [] OTHER -> ZeroTime]

setState(cb, state, st, t) ==
    IF cb.state = state THEN cb
    ELSE toNewGeneration([cb EXCEPT !.state = state], st, t)

\* The state as of time t: a closed breaker starts a new counting window once
\* its interval has passed, an open one becomes half-open once the clock has
\* passed its expiry (time.Time.Before)
currentState(cb, st, t) ==
    CASE cb.state = StateClosed ->
             IF cb.expiry # ZeroTime /\ cb.expiry < t
             THEN toNewGeneration(cb, st, t) ELSE cb
      [] cb.state = StateOpen ->
             IF cb.expiry < t
             THEN setState(cb, StateHalfOpen, st, t) ELSE cb
      [] OTHER -> cb

NewCircuitBreaker(st, t) ==
    toNewGeneration([state |-> StateClosed, generation |-> 0,
                     counts |-> ZeroCounts, expiry |-> ZeroTime], st, t)

\* Which error, if any, beforeRequest answers in the state it finds
Admit(cb, st) ==
    CASE cb.state = StateOpen -> Ptr(ErrOpenState)
      [] cb.state = StateHalfOpen /\ cb.counts.Requests >= MaxRequestsOf(st) ->
             Ptr(ErrTooManyRequests)
      [] OTHER -> Nil

\* beforeRequest: the breaker afterwards, the generation and the error
beforeRequest(cb, st, t) ==
    LET cur == currentState(cb, st, t)
        err == Admit(cur, st)
    IN  [cb |-> IF err = Nil
                THEN [cur EXCEPT !.counts = CountsOnRequest(@)] ELSE cur,
         generation |-> cur.generation,
         err |-> err]

onSuccess(cb, st, t) ==
    CASE cb.state = StateClosed ->
             [cb EXCEPT !.counts = CountsOnSuccess(@)]
      [] cb.state = StateHalfOpen ->
             LET counted == [cb EXCEPT !.counts = CountsOnSuccess(@)]
             IN  IF counted.counts.ConsecutiveSuccesses >= MaxRequestsOf(st)
                 THEN setState(counted, StateClosed, st, t) ELSE counted
      [] OTHER -> cb

onFailure(cb, st, t) ==
    CASE cb.state = StateClosed ->
             LET counted == [cb EXCEPT !.counts = CountsOnFailure(@)]
             IN  IF ReadyToTrip(st.Name, counted.counts)
                 THEN setState(counted, StateOpen, st, t) ELSE counted
      [] cb.state = StateHalfOpen -> setState(cb, StateOpen, st, t)
      [] OTHER -> cb

\* afterRequest: a result of an earlier generation is dropped
afterRequest(cb, st, t, before, success) ==
    LET cur == currentState(cb, st, t)
    IN  IF cur.generation # before THEN cur
        ELSE IF success THEN onSuccess(cur, st, t) ELSE onFailure(cur, st, t)

\* The clock advances
Tick ==
    /\ clock < MaxTime
    /\ clock' = clock + 1
    /\ UNCHANGED <<svcVars, rtVars, data, executing, fetcherCB, clientTimeout, fetch, linkCB, check>>

-----------------------------------------------------------------------------
(* WebPageFetcher *)

\* A URL string is the sequence of its pieces, cut at "://", ":", ".", "[",
\* "]" and before the path; "" is the empty sequence.
EmptyURL == <<>>

ExampleCom == <<"https", "://", "example", ".", "com">>

FetchURLs ==
    { EmptyURL,
      ExampleCom,
      <<"http", "://", "127", ".", "0", ".", "0", ".", "1", "/x">>,
      <<"http", "://", "localhost">>,
      <<"http", "://", "192", ".", "168", ".", "1", ".", "1">>,
      <<"http", "://", "172", ".", "16", ".", "0", ".", "1">>,
      <<"http", "://", "10", ".", "0", ".", "0", ".", "1", ":", "80">>,
      <<"http", "://", "0", ".", "0", ".", "0", ".", "0">>,
      <<"HTTP", "://", "LOCALHOST">>,
      <<"http", "://", "localhost", ":", "8080">>,
      <<"http", "://", "[", ":", ":", "1", "]", "/">>,
      <<"ftp", "://", "example", ".", "com">>,
      <<"example", ".", "com">>,
      <<"http", "://", "/path">>,
      <<"http", "://", "example", ".", "com", ":", "port">> }

\* The timeouts callers pass (0: none); NewWebPageFetcher's defaultTimeout
FetchTimeouts == {0, 5}

defaultTimeout == 30

\* config.MaxResponseSizeBytes and the body sizes a server answers with
MaxResponseSizeBytes == 10

BodySizes == {10, 11}

ToLower(s) ==
    CASE s = "HTTP" -> "http"
      [] s = "LOCALHOST" -> "localhost"
      [] OTHER -> s

ToLowerAll(seq) == [i \in 1..Len(seq) |-> ToLower(seq[i])]

IsPathPiece(s) == s \in {"/", "/x", "/path", "/p"}

PortDigits == {"80", "8080"}

HasPrefix(s, prefix) ==
    /\ Len(s) >= Len(prefix)
    /\ SubSeq(s, 1, Len(prefix)) = prefix

HasSuffix(s, suffix) ==
    /\ Len(s) >= Len(suffix)
    /\ SubSeq(s, Len(s) - Len(suffix) + 1, Len(s)) = suffix

\* url.Parse: the scheme is lower-cased; the host is the authority as written,
\* port and brackets included; a port that is not a number is a parse error
ParseScheme(raw) ==
    IF Len(raw) >= 2 /\ raw[2] \in {"://", ":"} THEN ToLower(raw[1]) ELSE ""

ParseHost(raw) ==
    IF Len(raw) >= 2 /\ raw[2] = "://"
    THEN LET paths == {i \in 3..Len(raw) : IsPathPiece(raw[i])}
             last == IF paths = {} THEN Len(raw)
                     ELSE (CHOOSE i \in paths : \A j \in paths : i <= j) - 1
         IN  SubSeq(raw, 3, last)
    ELSE <<>>

\* The index of the ":" that starts the port, 0 when the host has none
PortColon(host) ==
    LET colons == {i \in 1..Len(host) :
                      /\ host[i] = ":"
                      /\ \A j \in i..Len(host) : host[j] # "]"}
    IN  IF colons = {} THEN 0
        ELSE CHOOSE i \in colons : \A j \in colons : j <= i

ParseFails(raw) ==
    LET host == ParseHost(raw)
        c == PortColon(host)
    IN  /\ c # 0
        /\ ~ (c = Len(host) \/ (c + 1 = Len(host) /\ host[c + 1] \in PortDigits))

UrlParse(raw) ==
    IF ParseFails(raw) THEN <<Nil, Ptr("invalid port")>>
    ELSE <<Ptr([Scheme |-> ParseScheme(raw), Host |-> ParseHost(raw)]), Nil>>

privateHosts ==
    { <<"localhost">>,
      <<"127", ".", "0", ".", "0", ".", "1">>,
      <<":", ":", "1">>,
      <<"0", ".", "0", ".", "0", ".", "0">> }

privatePrefixes ==
    { <<"10", ".">>, <<"192", ".", "168", ".">> } \cup
    { <<"172", ".", n, ".">> :
        n \in {"16", "17", "18", "19", "20", "21", "22", "23",
               "24", "25", "26", "27", "28", "29", "30", "31"} }

isPrivateOrLocalURL(host) ==
    LET hostLower == ToLowerAll(host)
    IN  \/ \E h \in privateHosts :
              hostLower = h \/ HasSuffix(hostLower, <<".">> \o h)
        \/ \E pre \in privatePrefixes : HasPrefix(hostLower, pre)

\* validateURL: nil, or the reason for the rejection
validateURL(targetURL) ==
    IF targetURL = EmptyURL THEN Ptr("URL cannot be empty")
    ELSE LET parsed == UrlParse(targetURL)
         IN  IF parsed[2] # Nil THEN Ptr("invalid URL format")
             ELSE LET parsedURL == parsed[1][1]
                  IN  CASE parsedURL.Scheme = "" ->
                               Ptr("URL must include a scheme (http or https)")
                        [] parsedURL.Scheme \notin {"http", "https"} ->
                               Ptr("URL scheme must be http or https")
                        [] parsedURL.Host = <<>> ->
                               Ptr("URL must include a host")
                        [] isPrivateOrLocalURL(parsedURL.Host) ->
                               Ptr("access to private or local networks is not allowed")
                        [] OTHER -> Nil

NewDomainError(code, statusCode) ==
    [typed |-> TRUE, Code |-> code, StatusCode |-> statusCode, Message |-> code]

NewInvalidURLError == NewDomainError("INVALID_URL", 400)

NewURLNotReachableError(statusCode) ==
    NewDomainError("URL_NOT_REACHABLE", statusCode)

\* What the server, or the network, answers to the GET
NetError == [err |-> TRUE, status |-> 0, size |-> 0]

Responses ==
    {NetError} \cup
    {[err |-> FALSE, status |-> s, size |-> n] : s \in {200, 404}, n \in BodySizes}

\* fetchWithRetry's result for an answer: <<content, error>>
fetchWithRetry(resp) ==
    CASE resp.err -> <<Nil, Ptr(NewURLNotReachableError(0))>>
      [] resp.status < 200 \/ resp.status >= 300 ->
             <<Nil, Ptr(NewURLNotReachableError(resp.status))>>
      [] resp.size > MaxResponseSizeBytes ->
             <<Nil, Ptr(NewDomainError("RESPONSE_TOO_LARGE", 413))>>
      [] OTHER -> <<Ptr([StatusCode |-> resp.status, Size |-> resp.size]), Nil>>

\* Fetch's answer to an error of circuitBreaker.Execute
FetchOnExecuteErrorRaw(err) == err

FetchOnExecuteError(err) ==
    IF err = ErrOpenState
    THEN NewDomainError("CIRCUIT_BREAKER_OPEN", 503)
    ELSE err

\* client.SetTimeout(timeout) when timeout > 0
ClientTimeoutAfter(current, timeout) ==
    IF timeout > 0 THEN timeout ELSE current

NoFetch ==
    [pc |-> "idle", url |-> EmptyURL, timeout |-> 0, generation |-> 0,
     requested |-> FALSE, used |-> 0,
     ret |-> <<Nil, Nil>>]

\* Fetch up to the call of circuitBreaker.Execute
FetchCall(p, targetURL, timeout) ==
    /\ fetch[p].pc \in {"idle", "done"}
    /\ IF validateURL(targetURL) # Nil
       THEN /\ fetch' = [fetch EXCEPT ![p] =
                            [NoFetch EXCEPT !.pc = "done", !.url = targetURL,
                                            !.timeout = timeout,
                                            !.ret = <<Nil, Ptr(NewInvalidURLError)>>]]
            /\ UNCHANGED clientTimeout
       ELSE /\ fetch' = [fetch EXCEPT ![p] =
                            [NoFetch EXCEPT !.pc = "execute", !.url = targetURL,
                                            !.timeout = timeout]]
            /\ clientTimeout' = ClientTimeoutAfter(clientTimeout, timeout)
    /\ UNCHANGED <<svcVars, rtVars, data, executing, clock, fetcherCB, linkCB, check>>

\* circuitBreaker.Execute: beforeRequest, and, when admitted, the GET is sent
\* under the timeout the client has at that moment
FetchExecute(p) ==
    /\ fetch[p].pc = "execute"
    /\ currentState(fetcherCB, FetcherSettings, clock).counts.Requests < MaxCounted
    /\ LET br == beforeRequest(fetcherCB, FetcherSettings, clock)
       IN  /\ fetcherCB' = br.cb
           /\ fetch' = [fetch EXCEPT ![p] =
                 IF br.err # Nil
                 THEN [@ EXCEPT !.pc = "done",
                                !.ret = <<Nil, Ptr(FetchOnExecuteError(br.err[1]))>>]
                 ELSE [@ EXCEPT !.pc = "network", !.generation = br.generation,
                                !.requested = TRUE, !.used = clientTimeout]]
    /\ UNCHANGED <<svcVars, rtVars, data, executing, clock, clientTimeout, linkCB, check>>

\* Variant: the function handed to Execute never reports an error
ExecuteSucceededAlways(result) == TRUE

\* Execute takes the call for a success when the function it ran, which
\* returns what fetchWithRetry returned, gave no error
ExecuteSucceeded(result) == result[2] = Nil

\* The GET ends: fetchWithRetry returns, afterRequest counts it, Fetch returns
FetchComplete(p, resp) ==
    /\ fetch[p].pc = "network"
    /\ LET result == fetchWithRetry(resp)
       IN  /\ fetcherCB' = afterRequest(fetcherCB, FetcherSettings, clock,
                                        fetch[p].generation, ExecuteSucceeded(result))
           /\ fetch' = [fetch EXCEPT ![p].pc = "done", ![p].generation = 0,
                                     ![p].ret = result]
    /\ UNCHANGED <<svcVars, rtVars, data, executing, clock, clientTimeout, linkCB, check>>

-----------------------------------------------------------------------------
(* LinkChecker *)

\* config.MaxConcurrentChecks and config.MaxLinksToCheck of a deployment
MaxConcurrentChecks == 1

MaxLinksToCheck == 2

\* Longest list of links handed to CheckAccessibility
MaxInput == 3

LinkTypeInternal == "internal"

LinkTypeExternal == "external"

UnparsableURL == <<"http", "://", "example", ".", "com", ":", "port">>

LinkURLs ==
    { ExampleCom,
      <<"https", "://", "other", ".", "com">>,
      <<"https", "://", "third", ".", "com">> }

Links ==
    [URL : LinkURLs, Type : {LinkTypeExternal}] \cup
    { [URL |-> ExampleCom, Type |-> LinkTypeInternal],
      [URL |-> UnparsableURL, Type |-> LinkTypeExternal] }

LinkInputs == UNION {[1..n -> Links] : n \in 0..MaxInput}

\* The lists whose probes are followed to their end
ProbedInputs ==
    { <<>>,
      <<[URL |-> ExampleCom, Type |-> LinkTypeExternal]>>,
      <<[URL |-> ExampleCom, Type |-> LinkTypeInternal],
        [URL |-> <<"https", "://", "other", ".", "com">>, Type |-> LinkTypeExternal],
        [URL |-> <<"https", "://", "third", ".", "com">>, Type |-> LinkTypeExternal],
        [URL |-> ExampleCom, Type |-> LinkTypeExternal]>> }

\* filterExternalLinks: the loop over links[1..n], externalLinks and seen
RECURSIVE filterLoop(_, _)
filterLoop(links, n) ==
    IF n = 0 THEN [externalLinks |-> <<>>, seen |-> {}]
    ELSE LET before == filterLoop(links, n - 1)
             link == links[n]
         IN  CASE link.Type = LinkTypeInternal -> before
               [] link.URL \in before.seen -> before
               [] UrlParse(link.URL)[2] # Nil ->
                      [before EXCEPT !.seen = @ \cup {link.URL}]
               [] OTHER ->
                      [externalLinks |-> Append(before.externalLinks, link),
                       seen |-> before.seen \cup {link.URL}]

filterWithoutSeen(links) ==
    SelectSeq(links, LAMBDA l : l.Type # LinkTypeInternal /\ UrlParse(l.URL)[2] = Nil)

filterExternalLinks(links) == filterLoop(links, Len(links)).externalLinks

\* externalLinks[:MaxLinksToCheck] when longer
Truncate(externalLinks) ==
    IF Len(externalLinks) > MaxLinksToCheck
    THEN SubSeq(externalLinks, 1, MaxLinksToCheck) ELSE externalLinks

LinkResponses ==
    {NetError} \cup {[err |-> FALSE, status |-> s, size |-> 0] : s \in {200, 404}}

StatusText(status) == IF status = 404 THEN "404 Not Found" ELSE "200 OK"

ConnectionRefused == [typed |-> FALSE, Code |-> "", StatusCode |-> 0,
                      Message |-> "connection refused"]

\* The requests performLinkCheck sends, each with what came back
Request(method, resp) == [method |-> method, err |-> resp.err, status |-> resp.status]

IssuedRequests(head, get) ==
    <<Request("HEAD", head)>> \o (IF head.err THEN <<Request("GET", get)>> ELSE <<>>)

\* Variant: the outcome of the HEAD request stands, whatever the GET brings
performLinkCheckWithoutFallback(head, get) ==
    IF head.err THEN <<Nil, Ptr(ConnectionRefused)>>
    ELSE <<Ptr([StatusCode |-> head.status,
                Error |-> IF head.status >= 400
                          THEN StatusText(head.status) ELSE ""]), Nil>>

\* performLinkCheck: HEAD, then GET when HEAD failed: <<result, error>>
performLinkCheck(head, get) ==
    LET resp == IF head.err THEN get ELSE head
    IN  IF resp.err THEN <<Nil, Ptr(ConnectionRefused)>>
        ELSE <<Ptr([StatusCode |-> resp.status,
                    Error |-> IF resp.status >= 400
                              THEN StatusText(resp.status) ELSE ""]), Nil>>

\* checkSingleLink after circuitBreaker.Execute returned an error
EntryOnExecuteErrorAlwaysZero(linkURL, err) ==
    Ptr([URL |-> linkURL, StatusCode |-> 0, Error |-> err.Message])

EntryOnExecuteError(linkURL, err) ==
    IF err = ErrOpenState
    THEN Ptr([URL |-> linkURL, StatusCode |-> 503,
              Error |-> "Service temporarily unavailable (circuit breaker open)"])
    ELSE Ptr([URL |-> linkURL, StatusCode |-> 0, Error |-> err.Message])

\* checkSingleLink after a check that obtained a status
EntryOnResult(linkURL, checkResult) ==
    IF checkResult.StatusCode >= 400
    THEN Ptr([URL |-> linkURL, StatusCode |-> checkResult.StatusCode,
              Error |-> checkResult.Error])
    ELSE Nil

NoProbe == [rejected |-> "", neterr |-> FALSE, status |-> 0, requests |-> <<>>]

NoCheck ==
    [status |-> "idle", input |-> <<>>, links |-> <<>>, pc |-> <<>>,
     gen |-> <<>>, probe |-> <<>>, result |-> <<>>, semaphore |-> 0,
     inaccessibleLinks |-> <<>>, ret |-> <<>>]

\* CheckAccessibility up to wg.Wait(): one goroutine per link to check; the
\* caller's context is live when the call begins
CheckAccessibility(links) ==
    /\ check.status \in {"idle", "returned"}
    /\ IF Len(links) = 0
       THEN check' = [NoCheck EXCEPT !.status = "returned"]
       ELSE LET externalLinks == Truncate(filterExternalLinks(links))
                n == Len(externalLinks)
            IN  check' = [NoCheck EXCEPT
                             !.status = "running",
                             !.input = links,
                             !.links = externalLinks,
                             !.pc = [i \in 1..n |-> "acquire"],
                             !.gen = [i \in 1..n |-> 0],
                             !.probe = [i \in 1..n |-> NoProbe],
                             !.result = [i \in 1..n |-> Nil]]
    /\ ctxDone' = FALSE
    /\ UNCHANGED <<svcVars, data, executing, clock, fetcherCB, clientTimeout, fetch, linkCB,
                   extract, stream, floor, lcConfig, run>>

Workers == DOMAIN check.pc

\* semaphore <- struct{}{}
SlotFreeAlways(held) == TRUE

SlotFree(held) == held < lcConfig.MaxConcurrentChecks

Acquire(i) ==
    /\ check.pc[i] = "acquire"
    /\ SlotFree(check.semaphore)
    /\ check' = [check EXCEPT !.semaphore = @ + 1, !.pc[i] = "execute"]
    /\ UNCHANGED <<svcVars, rtVars, data, executing, clock, fetcherCB, clientTimeout, fetch, linkCB>>

\* checkSingleLink: circuitBreaker.Execute's beforeRequest; a rejected call
\* is turned into its entry at once
ProbeBegin(i) ==
    /\ check.pc[i] = "execute"
    /\ currentState(linkCB, LinkCheckerSettings, clock).counts.Requests < MaxCounted
    /\ LET br == beforeRequest(linkCB, LinkCheckerSettings, clock)
           link == check.links[i]
       IN  /\ linkCB' = br.cb
           /\ check' =
                IF br.err # Nil
                THEN [check EXCEPT
                        !.pc[i] = "append",
                        !.probe[i] = [NoProbe EXCEPT !.rejected = br.err[1].Message],
                        !.result[i] = EntryOnExecuteError(link.URL, br.err[1])]
                ELSE [check EXCEPT
                        !.pc[i] = "network",
                        !.gen[i] = br.generation]
    /\ UNCHANGED <<svcVars, rtVars, data, executing, clock, fetcherCB, clientTimeout, fetch>>

\* performLinkCheck ends, afterRequest counts it, checkSingleLink returns; the
\* requests carry the call's context, so once it is cancelled they fail
ProbeEnd(i, head, get) ==
    /\ check.pc[i] = "network"
    /\ ctxDone => head.err /\ get.err
    /\ LET r == performLinkCheck(head, get)
           link == check.links[i]
           entry == IF r[2] # Nil
                    THEN EntryOnExecuteError(link.URL, r[2][1])
                    ELSE EntryOnResult(link.URL, r[1][1])
       IN  /\ linkCB' = afterRequest(linkCB, LinkCheckerSettings, clock,
                                     check.gen[i], r[2] = Nil)
           /\ check' = [check EXCEPT
                          !.pc[i] = IF entry = Nil THEN "release" ELSE "append",
                          !.gen[i] = 0,
                          !.probe[i].neterr = (r[2] # Nil),
                          !.probe[i].status =
                              IF r[2] = Nil THEN r[1][1].StatusCode ELSE 0,
                          !.probe[i].requests = IssuedRequests(head, get),
                          !.result[i] = entry]
    /\ UNCHANGED <<svcVars, rtVars, data, executing, clock, fetcherCB, clientTimeout, fetch>>

\* mu.Lock(); inaccessibleLinks = append(...); mu.Unlock()
AppendOverwriting(list, entry) == <<entry>>

AppendLocked(list, entry) == Append(list, entry)

AppendEntry(i) ==
    /\ check.pc[i] = "append"
    /\ check' = [check EXCEPT
                   !.inaccessibleLinks = AppendLocked(@, check.result[i][1]),
                   !.pc[i] = "release"]
    /\ UNCHANGED <<svcVars, rtVars, data, executing, clock, fetcherCB, clientTimeout, fetch, linkCB>>

\* The deferred calls: <-semaphore, then wg.Done()
Release(i) ==
    /\ check.pc[i] = "release"
    /\ check' = [check EXCEPT !.semaphore = @ - 1, !.pc[i] = "done"]
    /\ UNCHANGED <<svcVars, rtVars, data, executing, clock, fetcherCB, clientTimeout, fetch, linkCB>>

\* wg.Wait() lets the call go on once every goroutine has called wg.Done()
WaitDone(pcs) == \A i \in DOMAIN pcs : pcs[i] = "done"

CheckReturn ==
    /\ check.status = "running"
    /\ WaitDone(check.pc)
    /\ check' = [check EXCEPT !.status = "returned",
                              !.ret = check.inaccessibleLinks]
    /\ UNCHANGED <<svcVars, rtVars, data, executing, clock, fetcherCB, clientTimeout, fetch, linkCB>>

\* The caller cancels the context it passed to CheckAccessibility
CancelCheck ==
    /\ check.status = "running"
    /\ ~ ctxDone
    /\ ctxDone' = TRUE
    /\ UNCHANGED <<svcVars, data, adapterVars, extract, stream, floor, lcConfig, run>>

-----------------------------------------------------------------------------
(* HTMLParser.ExtractLinks *)

\* Most elements of a parsed page
MaxElements == 4

\* The hrefs of the sampled pages, cut like the URLs above; "#" starts a
\* fragment, and a scheme without "//" is followed by ":"
Hrefs ==
    { <<>>,
      <<"#", "x">>,
      <<"javascript", ":", "void(0)">>,
      <<"https", "://", "example", ".", "com", "/p">>,
      <<"/p">>,
      <<"https", "://", "other", ".", "com", "/p">> }

\* An element is its tag and its href attribute, <<>> when it has none
Elements ==
    [tag : {"a"}, href : {Nil} \cup {Ptr(h) : h \in Hrefs}] \cup
    { [tag |-> "p", href |-> Nil],
      [tag |-> "p", href |-> Ptr(<<"https", "://", "example", ".", "com", "/p">>)] }

Documents == UNION {[1..n -> Elements] : n \in 0..MaxElements}

BaseURLs == {ExampleCom, UnparsableURL}

\* The selector handed to doc.Find
LinkSelector == [tag |-> "p", attr |-> "href"]

\* goquery's Find for a "tag[href]" selector: the matching elements in order
Find(doc, selector) ==
    SelectSeq(doc, LAMBDA e : e.tag = selector.tag /\ e.href # Nil)

\* The reference without its fragment
WithoutFragment(raw) ==
    LET marks == {i \in 1..Len(raw) : raw[i] = "#"}
    IN  IF marks = {} THEN raw
        ELSE SubSeq(raw, 1, (CHOOSE i \in marks : \A j \in marks : i <= j) - 1)

\* baseURLParsed.ResolveReference(parsedURL).String(): a reference with a
\* scheme stands for itself, a fragment is put after the base, a rooted path
\* after the base's scheme and authority
ResolveReference(base, href) ==
    CASE ParseScheme(href) # "" -> [href EXCEPT ![1] = ToLower(@)]
      [] href = <<>> -> base
      [] href[1] = "#" -> WithoutFragment(base) \o href
      [] OTHER -> SubSeq(base, 1, 2 + Len(ParseHost(base))) \o href

\* resolvedURL.Host
ResolvedHost(base, href) ==
    IF ParseScheme(href) # "" THEN ParseHost(href) ELSE ParseHost(base)

\* strings.HasPrefix(href, "#") || ... "javascript:" ... "mailto:" ... "tel:"
SkippedHref(href) ==
    \/ HasPrefix(href, <<"#">>)
    \/ HasPrefix(href, <<"javascript", ":">>)
    \/ HasPrefix(href, <<"mailto", ":">>)
    \/ HasPrefix(href, <<"tel", ":">>)

\* The callback of Each over selection[1..n]: links and seen
RECURSIVE extractLoop(_, _, _)
extractLoop(selection, base, n) ==
    IF n = 0 THEN [links |-> <<>>, seen |-> {}]
    ELSE LET before == extractLoop(selection, base, n - 1)
             href == selection[n].href[1]
             finalURL == ResolveReference(base, href)
         IN  CASE href = <<>> -> before
               [] UrlParse(href)[2] # Nil -> before
               [] finalURL \in before.seen -> before
               [] finalURL = <<>> \/ SkippedHref(href) ->
                      [before EXCEPT !.seen = @ \cup {finalURL}]
               [] OTHER ->
                      [links |-> Append(before.links,
                                   [URL |-> finalURL,
                                    Type |-> IF ResolvedHost(base, href) = ParseHost(base)
                                             THEN LinkTypeInternal
                                             ELSE LinkTypeExternal]),
                       seen |-> before.seen \cup {finalURL}]

\* ExtractLinks: <<links, err>>
ExtractLinks(html, baseURL) ==
    IF UrlParse(baseURL)[2] # Nil THEN <<Nil, UrlParse(baseURL)[2]>>
    ELSE LET selection == Find(html, LinkSelector)
         IN  <<extractLoop(selection, baseURL, Len(selection)).links, Nil>>

NoExtract == [called |-> FALSE, html |-> <<>>, baseURL |-> <<>>, ret |-> <<Nil, Nil>>]

\* The parser is handed a page and its base URL and extracts the links
ExtractLinksCall ==
    /\ ~ extract.called
    /\ extract' = [extract EXCEPT !.called = TRUE,
                                  !.ret = ExtractLinks(extract.html, extract.baseURL)]
    /\ UNCHANGED <<svcVars, data, adapterVars, stream, floor, lcConfig, ctxDone, run>>

-----------------------------------------------------------------------------
(* One breaker under concurrent callers of Execute *)

SettingsOf(name) ==
    IF name = "web-page-fetcher" THEN FetcherSettings ELSE LinkCheckerSettings

NoExecution(name) ==
    [name |-> name, cb |-> NewCircuitBreaker(SettingsOf(name), 1),
     inflight |-> [p \in Procs |-> Nil], failed |-> FALSE]

\* Execute: beforeRequest, and req() is started when the call is admitted
ExecuteBegin(p) ==
    /\ executing.inflight[p] = Nil
    /\ LET st == SettingsOf(executing.name)
           br == beforeRequest(executing.cb, st, clock)
       IN  /\ currentState(executing.cb, st, clock).counts.Requests < MaxCounted
           /\ executing' = [executing EXCEPT
                               !.cb = br.cb,
                               !.failed = FALSE,
                               !.inflight[p] = IF br.err = Nil
                                               THEN Ptr(br.generation) ELSE Nil]
    /\ UNCHANGED <<svcVars, rtVars, data, clock, fetcherCB, clientTimeout, fetch, linkCB, check>>

\* Execute: req() returned with or without an error, afterRequest
ExecuteEnd(p, success) ==
    /\ executing.inflight[p] # Nil
    /\ LET st == SettingsOf(executing.name)
           cur == currentState(executing.cb, st, clock)
       IN  executing' = [executing EXCEPT
                            !.cb = afterRequest(executing.cb, st, clock,
                                                executing.inflight[p][1], success),
                            !.failed = (~success /\ cur.state = StateClosed
                                          /\ cur.generation = executing.inflight[p][1]),
                            !.inflight[p] = Nil]
    /\ UNCHANGED <<svcVars, rtVars, data, clock, fetcherCB, clientTimeout, fetch, linkCB, check>>

-----------------------------------------------------------------------------
(* Initial state of the adapters: both breakers closed, no call in progress *)

InitAdapters ==
    /\ clock = 1
    /\ fetcherCB = NewCircuitBreaker(FetcherSettings, 1)
    /\ clientTimeout = defaultTimeout
    /\ fetch = [p \in Procs |-> NoFetch]
    /\ linkCB = NewCircuitBreaker(LinkCheckerSettings, 1)
    /\ check = NoCheck
    /\ executing = NoExecution("web-page-fetcher")

-----------------------------------------------------------------------------
(* Initial state of the rest: nothing extracted, no stream, the configured   *)
(* link checker, a live context, a process that has not started Run          *)

NoStream == [handler |-> "none", pc |-> "idle", written |-> <<>>, cancelled |-> FALSE]

Signals == {"SIGINT", "SIGTERM", "SIGHUP"}

\* A process that has not called Run: no signal is caught, nothing is started
NoRun ==
    [step |-> 1, blocked |-> FALSE, process |-> "alive", serving |-> FALSE,
     notified |-> {}, monitor |-> FALSE, shutdown |-> FALSE,
     signals |-> <<>>, did |-> <<>>]

InitRuntime ==
    /\ extract = NoExtract
    /\ stream = [p \in Procs |-> NoStream]
    /\ floor = [p \in Procs |-> 0]
    /\ lcConfig = [MaxConcurrentChecks |-> MaxConcurrentChecks]
    /\ ctxDone = FALSE
    /\ run = NoRun

-----------------------------------------------------------------------------
(* Initial state: empty table, empty cache, no request in progress *)

NoArg == [url |-> "", id |-> 0]

NoRet == [analysis |-> Nil, err |-> NoError, resp |-> Nil]

NoChan == [made |-> FALSE, sent |-> <<>>, closed |-> FALSE]

\* The service and its stores before any request
InitService ==
    /\ analysis = {}
    /\ cache = [id \in Ids |-> Nil]
    /\ issued = {}
    /\ history = [on |-> FALSE, states |-> {}]
    /\ pc = [p \in Procs |-> "idle"]
    /\ op = [p \in Procs |-> "none"]
    /\ arg = [p \in Procs |-> NoArg]
    /\ local = [p \in Procs |-> Nil]
    /\ calls = [p \in Procs |-> <<>>]
    /\ ret = [p \in Procs |-> NoRet]
    /\ started = [p \in Procs |-> Nil]
    /\ events = [p \in Procs |-> NoChan]
    /\ data = <<>>

Init ==
    /\ InitService
    /\ InitAdapters
    /\ InitRuntime

Ready(p) == pc[p] \in {"idle", "done"}

\* A request enters one of the service's operations
Enter(p, operation, a, first) ==
    /\ Ready(p)
    /\ pc' = [pc EXCEPT ![p] = first]
    /\ op' = [op EXCEPT ![p] = operation]
    /\ arg' = [arg EXCEPT ![p] = a]
    /\ local' = [local EXCEPT ![p] = Nil]
    /\ calls' = [calls EXCEPT ![p] = <<>>]
    /\ ret' = [ret EXCEPT ![p] = NoRet]
    /\ UNCHANGED <<analysis, cache, issued, history, data, adapterVars>>

\* The snapshot of the last StartAnalysis stays comparable only for a fetch of
\* the same id that follows it directly.
KeepStarted(p, id) ==
    IF started[p] # Nil /\ started[p][1].ID = id THEN started[p] ELSE Nil

\* RequestHandler.AnalyzeURL -> AnalyzeCommandHandler -> StartAnalysis
CallStartAnalysis(p) ==
    \E url \in SubmittedURLs :
        /\ Cardinality(issued) + Cardinality({q \in Procs : pc[q] = "save"}) < MaxIds
        /\ Enter(p, "StartAnalysis", [url |-> url, id |-> 0], "save")
        /\ started' = [started EXCEPT ![p] = Nil]
        /\ events' = [events EXCEPT ![p] = NoChan]
        /\ UNCHANGED rtVars

\* FetchAnalysis is entered for the id
FetchAnalysis(p, id) ==
    /\ Enter(p, "GetAnalysis", [url |-> "", id |-> id], "cacheFind")
    /\ started' = [started EXCEPT ![p] = KeepStarted(p, id)]
    /\ events' = [events EXCEPT ![p] = NoChan]

\* RequestHandler.GetAnalysis -> FetchAnalysisQueryHandler -> FetchAnalysis
CallGetAnalysis(p) ==
    \E id \in Ids :
        /\ FetchAnalysis(p, id)
        /\ UNCHANGED rtVars

\* events := make(chan AnalysisEvent); go func() {...}(); return events, nil
FetchAnalysisEvents(p, id) ==
    /\ Enter(p, "FetchAnalysisEvents", [url |-> "", id |-> id], "cacheFind")
    /\ started' = [started EXCEPT ![p] = Nil]
    /\ events' = [events EXCEPT ![p] = [made |-> TRUE, sent |-> <<>>, closed |-> FALSE]]

\* The error FetchAnalysisEvents returns beside the channel
FetchAnalysisEventsErr == NoError

\* A caller that receives whatever is sent on the channel
CallFetchAnalysisEvents(p) ==
    \E id \in Ids :
        /\ FetchAnalysisEvents(p, id)
        /\ UNCHANGED rtVars

-----------------------------------------------------------------------------
(* Returning from StartAnalysis / FetchAnalysis to whoever called it *)

\* RequestHandler.GetAnalysis: the response written for a FetchAnalysis result
GetAnalysisResponse(a, err) ==
    IF err # NoError
    THEN [status |-> 404, error |-> "not_found", message |-> "Analysis not found",
          details |-> err]
    ELSE [status |-> IF a # Nil THEN 200 ELSE 202, error |-> "", message |-> "",
          details |-> NoError]

\* Variant: the in_progress case sends the started event
EventForProgressAsStarted(a) ==
    CASE a.Status \in {StatusRequested, StatusInProgress} ->
            <<[Type |-> EventTypeStarted, Data |-> a, EventID |-> a.ID]>>
      [] a.Status = StatusCompleted ->
            <<[Type |-> EventTypeCompleted, Data |-> a, EventID |-> a.ID]>>
      [] a.Status = StatusFailed ->
            <<[Type |-> EventTypeFailed, Data |-> a, EventID |-> a.ID]>>
      [] OTHER -> <<>>

\* The switch of FetchAnalysisEvents: the event for the analysis, if any
EventFor(a) ==
    CASE a.Status = StatusRequested ->
            <<[Type |-> EventTypeStarted, Data |-> a, EventID |-> a.ID]>>
      [] a.Status = StatusInProgress ->
            <<[Type |-> EventTypeProgress, Data |-> a, EventID |-> a.ID]>>
      [] a.Status = StatusCompleted ->
            <<[Type |-> EventTypeCompleted, Data |-> a, EventID |-> a.ID]>>
      [] a.Status = StatusFailed ->
            <<[Type |-> EventTypeFailed, Data |-> a, EventID |-> a.ID]>>
      [] OTHER -> <<>>

\* Where the call goes once FetchAnalysis/StartAnalysis has its result: the
\* goroutine of FetchAnalysisEvents goes on to the send or to the deferred close
AfterReturn(p, a, err) ==
    IF op[p] = "FetchAnalysisEvents"
    THEN IF err = NoError /\ EventFor(a[1]) # <<>> THEN "send" ELSE "close"
    ELSE "done"

Return(p, a, err) ==
    /\ pc' = [pc EXCEPT ![p] = AfterReturn(p, a, err)]
    /\ ret' = [ret EXCEPT ![p] =
                 [analysis |-> a, err |-> err,
                  resp |-> IF op[p] = "GetAnalysis"
                           THEN Ptr(GetAnalysisResponse(a, err)) ELSE Nil]]

\* The collaborator calls of the current service call, in order, each with the
\* record it returned (Find, Save) or was given (Set)
Log(p, fn, a) ==
    calls' = [calls EXCEPT ![p] = Append(@, [fn |-> fn, val |-> a])]

-----------------------------------------------------------------------------
(* StartAnalysis: analysisRepo.Save, then a best-effort cacheRepo.Set *)

\* A later write to the record ends the comparison with the snapshot Save returned
Forget(id) ==
    [q \in Procs |-> IF started[q] # Nil /\ started[q][1].ID = id THEN Nil ELSE started[q]]

\* The states the durable store has held, extended when the record is kept
Held(rows) ==
    IF history.on
    THEN [history EXCEPT !.states = @ \cup {ScanRow(row) : row \in rows}]
    ELSE history

\* Variant: the Save error is dropped
StartAnalysisSwallowsSaveError(err) == <<Nil, NoError>>

\* if err != nil { return nil, err }
StartAnalysisOnSaveError(err) == <<Nil, err>>

\* Variant: the cache error is returned to the caller
ResultAfterCacheSetStrict(a, cacheErr) ==
    IF cacheErr # NoError THEN <<Nil, cacheErr>> ELSE <<a, NoError>>

\* if cacheErr != nil { log }; return analysis, nil
ResultAfterCacheSet(a, cacheErr) == <<a, NoError>>

SaveOK(p) ==
    /\ pc[p] = "save"
    /\ \E id \in {NewUUID(issued)}, now \in Clock :
        /\ issued' = issued \cup {id}
        /\ analysis' = analysis \cup {InsertedRow(id, arg[p].url, now)}
        /\ local' = [local EXCEPT ![p] = Ptr(SavedAnalysis(id, arg[p].url, now))]
        /\ started' = [started EXCEPT ![p] = Ptr(SavedAnalysis(id, arg[p].url, now))]
        /\ Log(p, "Durable.Save", Ptr(SavedAnalysis(id, arg[p].url, now)))
    /\ history' = Held(analysis')
    /\ pc' = [pc EXCEPT ![p] = "cacheSet"]
    /\ UNCHANGED <<cache, op, arg, ret, events, data, adapterVars, rtVars>>

SaveFail(p) ==
    /\ pc[p] = "save"
    /\ Log(p, "Durable.Save", Nil)
    /\ Return(p, StartAnalysisOnSaveError(PostgresSaveFailed[2])[1],
                 StartAnalysisOnSaveError(PostgresSaveFailed[2])[2])
    /\ UNCHANGED <<analysis, cache, issued, history, op, arg, local, started, events, data, adapterVars, rtVars>>

-----------------------------------------------------------------------------
(* CacheRepository.Find / Set over KeydbClient.Get / Set *)

\* The outcomes of CacheRepository.Find for the id: <<analysis, err>>
CacheFindOutcomes(id) ==
    {<<Nil, RedisError>>}
    \cup (IF cache[id] = Nil
          THEN {<<Nil, <<ErrCacheUnavailable>> >>}
          ELSE IF IsJSON(cache[id][1])
               THEN {<<Ptr(Unmarshal(cache[id][1])), NoError>>}
               ELSE {<<Nil, <<"invalid character">> >>})

\* Variant: the cached record is ignored and the repository always asked
AfterCacheFindAlwaysMiss(err) == "miss"

\* Variant: only the distinguished miss falls through, other cache errors fail
AfterCacheFindOnlyUnavailable(err) ==
    IF err = NoError THEN "hit"
    ELSE IF ErrorsIs(err, ErrCacheUnavailable) THEN "miss" ELSE "fail"

\* FetchAnalysis after cacheRepo.Find: if err == nil { return analysis, nil },
\* anything else falls through to the repository
AfterCacheFind(err) == IF err = NoError THEN "hit" ELSE "miss"

\* FetchAnalysis on a repository error
FetchAnalysisOnFindError(err) == <<Nil, Errorf("failed to find analysis", err)>>

\* FetchAnalysis, first step: the cache read; a hit returns at once
CacheFind(p) ==
    /\ pc[p] = "cacheFind"
    /\ \E out \in CacheFindOutcomes(arg[p].id) :
        /\ Log(p, "Cache.Find", out[1])
        /\ CASE AfterCacheFind(out[2]) = "hit" ->
                    /\ Return(p, out[1], NoError)
                    /\ local' = [local EXCEPT ![p] = out[1]]
             [] AfterCacheFind(out[2]) = "miss" ->
                    /\ pc' = [pc EXCEPT ![p] = "durableFind"]
                    /\ UNCHANGED <<ret, local>>
             [] OTHER ->
                    /\ Return(p, Nil, out[2])
                    /\ UNCHANGED local
    /\ UNCHANGED <<analysis, cache, issued, history, op, arg, started, events, data, adapterVars, rtVars>>

\* FetchAnalysis, second step: analysisRepo.Find; its error is wrapped and returned
DurableFind(p) ==
    /\ pc[p] = "durableFind"
    /\ \E out \in {PostgresFind(arg[p].id), PostgresFindFailed} :
        /\ Log(p, "Durable.Find", out[1])
        /\ IF out[2] # NoError
           THEN /\ Return(p, FetchAnalysisOnFindError(out[2])[1],
                             FetchAnalysisOnFindError(out[2])[2])
                /\ UNCHANGED local
           ELSE /\ pc' = [pc EXCEPT ![p] = "cacheSet"]
                /\ local' = [local EXCEPT ![p] = out[1]]
                /\ UNCHANGED ret
    /\ UNCHANGED <<analysis, cache, issued, history, op, arg, started, events, data, adapterVars, rtVars>>

\* CacheRepository.Set: the key is the record's own id, the value its JSON
CacheAfterSet(a) == [cache EXCEPT ![a.ID] = Ptr(Marshal(a))]

\* Last step of StartAnalysis and of FetchAnalysis on a miss: cacheRepo.Set,
\* whose error is only logged
CacheSet(p) ==
    /\ pc[p] = "cacheSet"
    /\ \E cacheErr \in {NoError, RedisError} :
        /\ cache' = IF cacheErr = NoError THEN CacheAfterSet(local[p][1]) ELSE cache
        /\ Return(p, ResultAfterCacheSet(local[p], cacheErr)[1],
                     ResultAfterCacheSet(local[p], cacheErr)[2])
    /\ Log(p, "Cache.Set", local[p])
    /\ UNCHANGED <<analysis, issued, history, op, arg, local, started, events, data, adapterVars, rtVars>>

-----------------------------------------------------------------------------
(* The goroutine of FetchAnalysisEvents after its FetchAnalysis *)

\* events <- AnalysisEvent{...}: the unbuffered send completes with a receive
SendEvent(p) ==
    /\ pc[p] = "send"
    /\ events' = [events EXCEPT ![p].sent = @ \o EventFor(ret[p].analysis[1])]
    /\ pc' = [pc EXCEPT ![p] = "close"]
    /\ UNCHANGED <<analysis, cache, issued, history, op, arg, local, calls, ret,
                   started, data, adapterVars, rtVars>>

\* defer close(events)
CloseEvents(p) ==
    /\ pc[p] = "close"
    /\ events' = [events EXCEPT ![p].closed = TRUE]
    /\ pc' = [pc EXCEPT ![p] = "done"]
    /\ UNCHANGED <<analysis, cache, issued, history, op, arg, local, calls, ret,
                   started, data, adapterVars, rtVars>>

-----------------------------------------------------------------------------
(* Writers outside the service: the repository's update and delete, the TTL *)

\* PostgresRepository.UpdateAnalysis on an existing row
UpdateAnalysis(a) ==
    /\ RowsWithId(a.ID) # {}
    /\ analysis' = {IF row.id = a.ID THEN UpdatedRow(row, a) ELSE row : row \in analysis}
    /\ analysis' # analysis
    /\ history' = Held(analysis')
    /\ started' = Forget(a.ID)
    /\ UNCHANGED <<cache, issued, pc, op, arg, local, calls, ret, events, data, adapterVars, rtVars>>

\* PostgresRepository.Delete of an existing row
Delete(id) ==
    /\ RowsWithId(id) # {}
    /\ analysis' = analysis \ RowsWithId(id)
    /\ started' = Forget(id)
    /\ UNCHANGED <<cache, issued, history, pc, op, arg, local, calls, ret, events, data, adapterVars, rtVars>>

\* The key's TTL (DefaultExpiry) runs out
CacheExpire(id) ==
    /\ cache[id] # Nil
    /\ cache' = [cache EXCEPT ![id] = Nil]
    /\ UNCHANGED <<analysis, issued, history, pc, op, arg, local, calls, ret,
                   started, events, data, adapterVars, rtVars>>

\* Bytes under the key that json.Unmarshal rejects (Find's unmarshal branch)
CacheCorrupt(id) ==
    /\ cache[id] # Nil
    /\ cache[id] # Ptr(Garbage)
    /\ cache' = [cache EXCEPT ![id] = Ptr(Garbage)]
    /\ UNCHANGED <<analysis, issued, history, pc, op, arg, local, calls, ret,
                   started, events, data, adapterVars, rtVars>>

Next ==
    \/ \E p \in Procs : CallStartAnalysis(p)
    \/ \E p \in Procs : CallGetAnalysis(p)
    \/ \E p \in Procs : CallFetchAnalysisEvents(p)
    \/ \E p \in Procs : SaveOK(p)
    \/ \E p \in Procs : SaveFail(p)
    \/ \E p \in Procs : CacheFind(p)
    \/ \E p \in Procs : DurableFind(p)
    \/ \E p \in Procs : CacheSet(p)
    \/ \E p \in Procs : SendEvent(p)
    \/ \E p \in Procs : CloseEvents(p)
    \/ \E a \in AnalysisInputs : UpdateAnalysis(a)
    \/ \E id \in Ids : Delete(id)
    \/ \E id \in Ids : CacheExpire(id)
    \/ \E id \in Ids : CacheCorrupt(id)

Spec == Init /\ [][Next]_vars

\* The same system, keeping the record of the states the durable store has held
InitHeld ==
    /\ analysis = {}
    /\ cache = [id \in Ids |-> Nil]
    /\ issued = {}
    /\ history = [on |-> TRUE, states |-> {}]
    /\ pc = [p \in Procs |-> "idle"]
    /\ op = [p \in Procs |-> "none"]
    /\ arg = [p \in Procs |-> NoArg]
    /\ local = [p \in Procs |-> Nil]
    /\ calls = [p \in Procs |-> <<>>]
    /\ ret = [p \in Procs |-> NoRet]
    /\ started = [p \in Procs |-> Nil]
    /\ events = [p \in Procs |-> NoChan]
    /\ data = <<>>
    /\ InitAdapters
    /\ InitRuntime

SpecHeld == InitHeld /\ [][Next]_vars

-----------------------------------------------------------------------------
(* InMemoryAnalysisRepository *)

\* The ids and records callers hand to the in-memory repository
MemIds == {1, 2}

MemInputs ==
    {MkAnalysis(id, url, st, created) :
        id \in MemIds, url \in URLs, st \in AnalysisStatus, created \in {1000, 2000}}

\* deepCopyAnalysis: json.Marshal then json.Unmarshal
deepCopyAnalysis(a) == Unmarshal(Marshal(a))

Create(a) ==
    /\ a.ID \notin DOMAIN data
    /\ data' = [id \in DOMAIN data \cup {a.ID} |->
                   IF id = a.ID THEN deepCopyAnalysis(a) ELSE data[id]]
    /\ UNCHANGED <<svcVars, adapterVars, rtVars>>

Update(a) ==
    /\ a.ID \in DOMAIN data
    /\ data' = [data EXCEPT ![a.ID] = deepCopyAnalysis(a)]
    /\ data' # data
    /\ UNCHANGED <<svcVars, adapterVars, rtVars>>

MemDelete(id) ==
    /\ id \in DOMAIN data
    /\ data' = [k \in DOMAIN data \ {id} |-> data[k]]
    /\ UNCHANGED <<svcVars, adapterVars, rtVars>>

NextMem ==
    \/ \E a \in MemInputs : Create(a)
    \/ \E a \in MemInputs : Update(a)
    \/ \E id \in MemIds : MemDelete(id)

SpecMem == Init /\ [][NextMem]_vars

-----------------------------------------------------------------------------
(* The adapters' specifications *)

\* Fetch calls on every sample url
NextFetch ==
    \/ Tick
    \/ \E p \in Procs, u \in FetchURLs : FetchCall(p, u, 0)
    \/ \E p \in Procs : FetchExecute(p)
    \/ \E p \in Procs, resp \in Responses : FetchComplete(p, resp)

SpecFetch == Init /\ [][NextFetch]_vars

\* Fetch calls with and without a timeout of their own
NextTimeout ==
    \/ Tick
    \/ \E p \in Procs, t \in FetchTimeouts : FetchCall(p, ExampleCom, t)
    \/ \E p \in Procs : FetchExecute(p)
    \/ \E p \in Procs, resp \in Responses : FetchComplete(p, resp)

SpecTimeout == Init /\ [][NextTimeout]_vars

\* CheckAccessibility calls, one after the other, and their goroutines
NextLinks ==
    \/ Tick
    \/ \E links \in ProbedInputs : CheckAccessibility(links)
    \/ \E i \in Workers : Acquire(i)
    \/ \E i \in Workers : ProbeBegin(i)
    \/ \E i \in Workers, head \in LinkResponses, get \in LinkResponses :
           ProbeEnd(i, head, get)
    \/ \E i \in Workers : AppendEntry(i)
    \/ \E i \in Workers : Release(i)
    \/ CheckReturn

SpecLinks == Init /\ [][NextLinks]_vars

\* CheckAccessibility on every list of links, up to the spawning of the probes
NextFilter ==
    \/ \E links \in LinkInputs : CheckAccessibility(links)
    \/ CheckReturn

SpecFilter == Init /\ [][NextFilter]_vars

\* Either breaker under concurrent callers
InitBreaker ==
    /\ analysis = {}
    /\ cache = [id \in Ids |-> Nil]
    /\ issued = {}
    /\ history = [on |-> FALSE, states |-> {}]
    /\ pc = [p \in Procs |-> "idle"]
    /\ op = [p \in Procs |-> "none"]
    /\ arg = [p \in Procs |-> NoArg]
    /\ local = [p \in Procs |-> Nil]
    /\ calls = [p \in Procs |-> <<>>]
    /\ ret = [p \in Procs |-> NoRet]
    /\ started = [p \in Procs |-> Nil]
    /\ events = [p \in Procs |-> NoChan]
    /\ data = <<>>
    /\ clock = 1
    /\ fetcherCB = NewCircuitBreaker(FetcherSettings, 1)
    /\ clientTimeout = defaultTimeout
    /\ fetch = [p \in Procs |-> NoFetch]
    /\ linkCB = NewCircuitBreaker(LinkCheckerSettings, 1)
    /\ check = NoCheck
    /\ executing \in {NoExecution("web-page-fetcher"), NoExecution("link-checker")}
    /\ InitRuntime

NextBreaker ==
    \/ Tick
    \/ \E p \in Procs : ExecuteBegin(p)
    \/ \E p \in Procs, success \in BOOLEAN : ExecuteEnd(p, success)

SpecBreaker == InitBreaker /\ [][NextBreaker]_vars

\* The HTML parser alone: pages and base URLs handed to ExtractLinks
InitExtract ==
    /\ InitService
    /\ InitAdapters
    /\ extract \in [called : {FALSE}, html : Documents, baseURL : BaseURLs,
                    ret : {<<Nil, Nil>>}]
    /\ stream = [p \in Procs |-> NoStream]
    /\ floor = [p \in Procs |-> 0]
    /\ lcConfig = [MaxConcurrentChecks |-> MaxConcurrentChecks]
    /\ ctxDone = FALSE
    /\ run = NoRun

NextExtract == ExtractLinksCall

SpecExtract == InitExtract /\ [][NextExtract]_vars


-----------------------------------------------------------------------------
(* The HTTP handlers of the event stream: SSEHandlers.HandleGetAnalysisEvents *)
(* and RequestHandler.GetAnalysisEvents, each over FetchAnalysisEvents        *)

\* Most keep-alive ticks followed on one connection
MaxKeepAlives == 1

SSE(event, type) == [event |-> event, type |-> type]

\* writeSSEError / the "connected" event: what the handler writes first
FirstWrite(err) ==
    IF err = NoError THEN SSE("connected", "")
    ELSE IF err = <<ErrAnalysisNotFound>> THEN SSE("error", "ANALYSIS_NOT_FOUND")
    ELSE SSE("error", "INTERNAL_SERVER_ERROR")

\* writeAnalysisEvent: an "analysis_event" carrying the domain event's type
writeAnalysisEvent(e) == SSE("analysis_event", e.Type)

\* Variant: only the completed event ends the stream
IsFinalEventOnlyCompleted(type) == type = EventTypeCompleted

\* event.Type == EventTypeCompleted || event.Type == EventTypeFailed
IsFinalEvent(type) == type \in {EventTypeCompleted, EventTypeFailed}

KeepAlives(written) ==
    Cardinality({i \in 1..Len(written) : written[i].event = "keepalive"})

Streaming(p) == stream[p].handler = "sse" /\ stream[p].pc = "loop"

\* HandleGetAnalysisEvents up to its loop: FetchAnalysisEvents, then the
\* error event and return, or the "connected" event
HandleGetAnalysisEvents(p) ==
    /\ stream[p].pc \in {"idle", "returned"}
    /\ \E id \in Ids : FetchAnalysisEvents(p, id)
    /\ stream' = [stream EXCEPT ![p] =
                    [handler |-> "sse",
                     pc |-> IF FetchAnalysisEventsErr = NoError THEN "loop" ELSE "returned",
                     written |-> <<FirstWrite(FetchAnalysisEventsErr)>>,
                     cancelled |-> FALSE]]
    /\ UNCHANGED <<extract, floor, lcConfig, ctxDone, run>>

\* RequestHandler.GetAnalysisEvents: the channel is dropped, an error written
RequestHandlerGetAnalysisEvents(p) ==
    /\ stream[p].pc \in {"idle", "returned"}
    /\ \E id \in Ids : FetchAnalysisEvents(p, id)
    /\ stream' = [stream EXCEPT ![p] =
                    [handler |-> "rest", pc |-> "returned",
                     written |-> IF FetchAnalysisEventsErr = NoError THEN <<>>
                                 ELSE <<SSE("error", "Failed to fetch events")>>,
                     cancelled |-> FALSE]]
    /\ UNCHANGED <<extract, floor, lcConfig, ctxDone, run>>

\* case event, ok := <-eventChan with ok: the goroutine's send meets the
\* handler's receive, the event is written, a final event ends the loop
StreamReceive(p) ==
    /\ Streaming(p)
    /\ pc[p] = "send"
    /\ LET e == EventFor(ret[p].analysis[1])[1]
       IN  /\ events' = [events EXCEPT ![p].sent = Append(@, e)]
           /\ stream' = [stream EXCEPT
                           ![p].written = Append(@, writeAnalysisEvent(e)),
                           ![p].pc = IF IsFinalEvent(e.Type) THEN "grace" ELSE "loop"]
    /\ pc' = [pc EXCEPT ![p] = "close"]
    /\ UNCHANGED <<analysis, cache, issued, history, op, arg, local, calls, ret,
                   started, data, adapterVars, extract, floor, lcConfig, ctxDone, run>>

\* case event, ok := <-eventChan with !ok: "stream_end", return
StreamClosed(p) ==
    /\ Streaming(p)
    /\ events[p].closed
    /\ stream' = [stream EXCEPT ![p].written = Append(@, SSE("stream_end", "")),
                                ![p].pc = "returned"]
    /\ UNCHANGED <<svcVars, data, adapterVars, extract, floor, lcConfig, ctxDone, run>>

\* case <-keepAliveTicker.C
KeepAlive(p) ==
    /\ Streaming(p)
    /\ KeepAlives(stream[p].written) < MaxKeepAlives
    /\ stream' = [stream EXCEPT ![p].written = Append(@, SSE("keepalive", ""))]
    /\ UNCHANGED <<svcVars, data, adapterVars, extract, floor, lcConfig, ctxDone, run>>

\* The client goes away: the request's context is cancelled
ClientCancel(p) ==
    /\ stream[p].handler = "sse"
    /\ stream[p].pc \in {"loop", "grace"}
    /\ ~ stream[p].cancelled
    /\ stream' = [stream EXCEPT ![p].cancelled = TRUE]
    /\ UNCHANGED <<svcVars, data, adapterVars, extract, floor, lcConfig, ctxDone, run>>

\* case <-ctx.Done(): return
CtxDone(p) ==
    /\ Streaming(p)
    /\ stream[p].cancelled
    /\ stream' = [stream EXCEPT ![p].pc = "returned"]
    /\ UNCHANGED <<svcVars, data, adapterVars, extract, floor, lcConfig, ctxDone, run>>

\* time.Sleep(100 * time.Millisecond); return
GraceReturn(p) ==
    /\ stream[p].handler = "sse"
    /\ stream[p].pc = "grace"
    /\ stream' = [stream EXCEPT ![p].pc = "returned"]
    /\ UNCHANGED <<svcVars, data, adapterVars, extract, floor, lcConfig, ctxDone, run>>

\* A table that holds no record, or one record in one of the four statuses
StoredRows ==
    {{}} \cup
    {{UpdatedRow(InsertedRow(id, url, now), MkAnalysis(id, url, st, now))} :
        id \in Ids, url \in SubmittedURLs, now \in Clock, st \in AnalysisStatus}

InitStream ==
    /\ analysis \in StoredRows
    /\ issued = {row.id : row \in analysis}
    /\ cache = [id \in Ids |-> Nil]
    /\ history = [on |-> FALSE, states |-> {}]
    /\ pc = [p \in Procs |-> "idle"]
    /\ op = [p \in Procs |-> "none"]
    /\ arg = [p \in Procs |-> NoArg]
    /\ local = [p \in Procs |-> Nil]
    /\ calls = [p \in Procs |-> <<>>]
    /\ ret = [p \in Procs |-> NoRet]
    /\ started = [p \in Procs |-> Nil]
    /\ events = [p \in Procs |-> NoChan]
    /\ data = <<>>
    /\ InitAdapters
    /\ InitRuntime

\* The steps of the goroutine FetchAnalysisEvents starts
Producer(p) ==
    \/ CacheFind(p)
    \/ DurableFind(p)
    \/ CacheSet(p)
    \/ StreamReceive(p)
    \/ CloseEvents(p)

\* The steps of the handler once it has the channel
Consumer(p) ==
    \/ StreamClosed(p)
    \/ KeepAlive(p)
    \/ CtxDone(p)
    \/ GraceReturn(p)

NextStream ==
    \/ \E p \in Procs : HandleGetAnalysisEvents(p)
    \/ \E p \in Procs : RequestHandlerGetAnalysisEvents(p)
    \/ \E p \in Procs : ClientCancel(p)
    \/ \E p \in Procs : Producer(p)
    \/ \E p \in Procs : Consumer(p)

SpecStream == InitStream /\ [][NextStream]_vars

\* The goroutines are scheduled: a step that stays possible is taken
SpecStreamFair ==
    SpecStream /\ \A p \in Procs : WF_vars(Producer(p)) /\ WF_vars(Consumer(p))

-----------------------------------------------------------------------------
(* The link checker under each configured pool size, with a caller that may *)
(* cancel the call's context                                                *)

\* The values of config.MaxConcurrentChecks followed
PoolSizes == 0..MaxConcurrentChecks

InitPool ==
    /\ InitService
    /\ InitAdapters
    /\ extract = NoExtract
    /\ stream = [p \in Procs |-> NoStream]
    /\ floor = [p \in Procs |-> 0]
    /\ lcConfig \in [MaxConcurrentChecks : PoolSizes]
    /\ ctxDone = FALSE
    /\ run = NoRun

NextPool ==
    \/ \E links \in ProbedInputs : CheckAccessibility(links)
    \/ CancelCheck
    \/ \E i \in Workers : Acquire(i)
    \/ \E i \in Workers : ProbeBegin(i)
    \/ \E i \in Workers, head \in LinkResponses, get \in LinkResponses :
          ProbeEnd(i, head, get)
    \/ \E i \in Workers : AppendEntry(i)
    \/ \E i \in Workers : Release(i)
    \/ CheckReturn

SpecPool == InitPool /\ [][NextPool]_vars

-----------------------------------------------------------------------------
(* ServiceCtx.Run: the calls it makes in order, the process's signals, and   *)
(* the requests the HTTP server handles while it serves                      *)

\* The body of Run
RunOrder == <<"build", "startService", "wait", "monitorConfigChanges", "shutdown">>

\* What the goroutine of shutdown() does once it has received from
\* shutdownChannel; cleanup is deferred and so comes last
ShutdownSequence ==
    <<"HTTPServer.Shutdown", "tracerShutdownFunc", "serverStopFunc", "cleanup">>

Serving == run.process = "alive" /\ run.serving

\* Run makes its next call. startService does not return while the server
\* serves: ListenAndServe blocks; wait registers the signal channels; the
\* other two calls start their goroutine
RunStep ==
    /\ run.process = "alive"
    /\ ~ run.blocked
    /\ run.step <= Len(RunOrder)
    /\ LET call == RunOrder[run.step]
       IN  run' = CASE call = "build" -> [run EXCEPT !.step = @ + 1]
                    [] call = "startService" ->
                           [run EXCEPT !.blocked = TRUE, !.serving = TRUE]
                    [] call = "wait" ->
                           [run EXCEPT !.step = @ + 1, !.notified = Signals]
                    [] call = "monitorConfigChanges" ->
                           [run EXCEPT !.step = @ + 1, !.monitor = TRUE]
                    [] OTHER -> [run EXCEPT !.step = @ + 1, !.shutdown = TRUE]
    /\ UNCHANGED <<svcVars, data, adapterVars, extract, stream, floor, lcConfig, ctxDone>>

\* ListenAndServe returns its error: logger.Fatal ends the process
ListenAndServeFails ==
    /\ Serving
    /\ run' = [run EXCEPT !.process = "exited", !.serving = FALSE]
    /\ UNCHANGED <<svcVars, data, adapterVars, extract, stream, floor, lcConfig, ctxDone>>

\* A signal reaches the process. One that signal.Notify has not registered
\* ends it; SIGINT and SIGTERM on shutdownChannel set the shutdown goroutine
\* going, after which the config monitor sees the cancelled context and stops;
\* SIGHUP on reloadConfigChannel makes the monitor reload the configuration
Deliver(sig) ==
    /\ run.process = "alive"
    /\ run' = CASE sig \notin run.notified ->
                     [run EXCEPT !.process = "killed", !.serving = FALSE,
                                 !.signals = Append(@, sig)]
                [] sig = "SIGHUP" ->
                     [run EXCEPT !.signals = Append(@, sig),
                                 !.did = IF run.monitor THEN Append(@, "config.Load") ELSE @]
                [] OTHER ->
                     IF run.shutdown
                     THEN [run EXCEPT !.signals = Append(@, sig),
                                      !.did = @ \o ShutdownSequence,
                                      !.serving = FALSE, !.monitor = FALSE,
                                      !.shutdown = FALSE]
                     ELSE [run EXCEPT !.signals = Append(@, sig)]
    /\ UNCHANGED <<svcVars, data, adapterVars, extract, stream, floor, lcConfig, ctxDone>>

\* The requests the server handles while it serves
ServeRequest ==
    /\ Serving
    /\ \E p \in Procs :
          \/ CallGetAnalysis(p)
          \/ CacheFind(p)
          \/ DurableFind(p)
          \/ CacheSet(p)

InitRun ==
    /\ analysis \in StoredRows
    /\ issued = {row.id : row \in analysis}
    /\ cache = [id \in Ids |-> Nil]
    /\ history = [on |-> FALSE, states |-> {}]
    /\ pc = [p \in Procs |-> "idle"]
    /\ op = [p \in Procs |-> "none"]
    /\ arg = [p \in Procs |-> NoArg]
    /\ local = [p \in Procs |-> Nil]
    /\ calls = [p \in Procs |-> <<>>]
    /\ ret = [p \in Procs |-> NoRet]
    /\ started = [p \in Procs |-> Nil]
    /\ events = [p \in Procs |-> NoChan]
    /\ data = <<>>
    /\ InitAdapters
    /\ InitRuntime

NextRun ==
    \/ RunStep
    \/ ListenAndServeFails
    \/ \E sig \in Signals : Deliver(sig)
    \/ ServeRequest

SpecRun == InitRun /\ [][NextRun]_vars

-----------------------------------------------------------------------------
(* Properties *)

FetchOps == {"GetAnalysis", "FetchAnalysisEvents"}

\* FetchAnalysis has returned to its caller
FetchReturned(p) == op[p] \in FetchOps /\ pc[p] \in {"send", "close", "done"}

StartReturned(p) == op[p] = "StartAnalysis" /\ pc[p] = "done"

\* C1: FetchAnalysis calls Cache.Find first; a hit returns the cached record
\* with no Durable.Find and no Cache.Set; on any Cache.Find error it calls
\* Durable.Find exactly once and, when that succeeds, Cache.Set exactly once
\* with the record found.
C1_CacheAside ==
    \A p \in Procs : op[p] \in FetchOps =>
        LET c == calls[p] IN
        /\ Len(c) <= 3
        /\ Len(c) >= 1 => c[1].fn = "Cache.Find"
        /\ Len(c) >= 2 => c[1].val = Nil /\ c[2].fn = "Durable.Find"
        /\ Len(c) = 3 => c[2].val # Nil /\ c[3] = [fn |-> "Cache.Set", val |-> c[2].val]
        /\ FetchReturned(p) =>
            /\ Len(c) >= 1
            /\ c[1].val # Nil =>
                 Len(c) = 1 /\ ret[p].analysis = c[1].val /\ ret[p].err = NoError
            /\ c[1].val = Nil => Len(c) >= 2 /\ (c[2].val # Nil => Len(c) = 3)

C1_Witness ==
    \E p, q \in Procs :
        /\ FetchReturned(p) /\ Len(calls[p]) = 1 /\ calls[p][1].val # Nil
        /\ FetchReturned(q) /\ Len(calls[q]) = 3

\* C2: whenever Save succeeds, StartAnalysis returns the Analysis of Save with
\* a nil error, whatever Cache.Set did, and the durable record stays as Save
\* wrote it (until someone else updates or deletes it).
C2_DurableWriteAuthoritative ==
    \A p \in Procs : StartReturned(p) /\ calls[p][1].val # Nil =>
        /\ ret[p].err = NoError
        /\ ret[p].analysis = calls[p][1].val
        /\ calls[p][2] = [fn |-> "Cache.Set", val |-> calls[p][1].val]
        /\ started[p] # Nil => ret[p].analysis[1] \in DurableStates

C2_Witness ==
    \E p \in Procs :
        /\ StartReturned(p) /\ ret[p].analysis # Nil /\ ret[p].err = NoError
        /\ cache[ret[p].analysis[1].ID] = Nil
        /\ started[p] # Nil

\* C3: when Save fails, StartAnalysis returns that error and a nil Analysis
\* and makes no cache call.
C3_SaveErrorPropagates ==
    \A p \in Procs : StartReturned(p) /\ calls[p][1].val = Nil =>
        /\ ret[p].analysis = Nil
        /\ ret[p].err = PostgresSaveFailed[2]
        /\ Len(calls[p]) = 1

C3_Witness ==
    \E p \in Procs : StartReturned(p) /\ calls[p][1].val = Nil /\ ret[p].err # NoError

CacheErrors == {RedisError[1], ErrCacheUnavailable, "invalid character"}

\* C4: FetchAnalysis never returns an error of the cache: when Cache.Find
\* fails and Durable.Find succeeds it returns the durable record with a nil
\* error (whatever Cache.Set did), and any error it returns is the wrapped
\* error of Durable.Find.
C4_CacheErrorsNeverSurface ==
    \A p \in Procs : FetchReturned(p) =>
        LET c == calls[p] IN
        /\ Len(c) >= 2 /\ c[2].val # Nil =>
             ret[p].err = NoError /\ ret[p].analysis = c[2].val
        /\ ret[p].err # NoError =>
             /\ Len(c) = 2 /\ c[2].val = Nil
             /\ ret[p].err[1] = "failed to find analysis"
             /\ \A i \in DOMAIN ret[p].err : ret[p].err[i] \notin CacheErrors

C4_Witness ==
    \E p \in Procs :
        /\ FetchReturned(p) /\ Len(calls[p]) = 3 /\ ret[p].err = NoError
        /\ cache[arg[p].id] = Ptr(Garbage)

RecordMissing(err) == \E i \in DOMAIN err : err[i] = "analysis with ID not found"

\* C5: a missing record and any other failure of FetchAnalysis are never
\* reported as the same outcome: the responses GetAnalysis writes for the two
\* differ in status or error type.
C5_NotFoundDistinct ==
    \A p, q \in Procs :
        /\ op[p] = "GetAnalysis" /\ pc[p] = "done" /\ ret[p].err # NoError
        /\ op[q] = "GetAnalysis" /\ pc[q] = "done" /\ ret[q].err # NoError
        /\ RecordMissing(ret[p].err) /\ ~RecordMissing(ret[q].err)
        => <<ret[p].resp[1].status, ret[p].resp[1].error>>
             # <<ret[q].resp[1].status, ret[q].resp[1].error>>

StatusEventType ==
    [requested |-> "analysis_started", in_progress |-> "analysis_progress",
     completed |-> "analysis_completed", failed |-> "analysis_failed"]

\* C6: for an analysis FetchAnalysis retrieves, the channel of
\* FetchAnalysisEvents carries exactly one event, of the type of the status,
\* with the analysis as data and its id as event id, and is then closed; no
\* second event is delivered.
C6_SingleEvent ==
    \A p \in Procs : op[p] = "FetchAnalysisEvents" =>
        /\ Len(events[p].sent) <= 1
        /\ events[p].sent # <<>> =>
             /\ ret[p].err = NoError
             /\ events[p].sent[1].Type = StatusEventType[ret[p].analysis[1].Status]
             /\ events[p].sent[1].Data = ret[p].analysis[1]
             /\ events[p].sent[1].EventID = arg[p].id
        /\ events[p].closed /\ ret[p].err = NoError => Len(events[p].sent) = 1
        /\ pc[p] = "done" => events[p].closed
        /\ events[p].closed => pc[p] = "done"

C6_Witness ==
    \E p \in Procs :
        /\ op[p] = "FetchAnalysisEvents" /\ events[p].closed
        /\ Len(events[p].sent) = 1
        /\ events[p].sent[1].Type = "analysis_progress"

StatusRank(st) ==
    CASE st = StatusRequested -> 0
      [] st = StatusInProgress -> 1
      [] OTHER -> 2

\* C7: the status of a durable record only moves forward along
\* requested -> in_progress -> {completed, failed}: no step lowers it and a
\* completed or failed record keeps its status.
C7_StatusMonotonic ==
    [][\A r1 \in analysis : \A r2 \in analysis' :
          r1.id = r2.id =>
            /\ StatusRank(r2.status) >= StatusRank(r1.status)
            /\ r1.status \in {StatusCompleted, StatusFailed} => r2.status = r1.status]_vars

\* C8: no Update of the persistence layer changes the id or the url stored
\* for a record.
C8_IdUrlImmutable ==
    [][\A id \in DOMAIN data \cap DOMAIN data' :
          data'[id].ID = data[id].ID /\ data'[id].URL = data[id].URL]_vars

\* C9 (as claimed): each entry written to the cache is a serialization of the
\* state the durable store holds for that id at the time of the write.
C9_CacheWrittenFromCurrentState ==
    [][\A id \in Ids :
          cache'[id] # cache[id] /\ cache'[id] # Nil /\ IsJSON(cache'[id][1]) =>
            \E row \in analysis' :
                row.id = id /\ cache'[id][1] = Marshal(ScanRow(row))]_vars

\* C9 (amended): each entry the service wrote to the cache is a serialization
\* of a state the durable store held for that id at or before the time of the
\* write.
C9_CacheHoldsHeldState ==
    \A id \in Ids :
        cache[id] # Nil /\ IsJSON(cache[id][1]) =>
            \E s \in history.states : s.ID = id /\ cache[id][1] = Marshal(s)

C9_Witness ==
    \E id \in Ids :
        /\ cache[id] # Nil /\ IsJSON(cache[id][1])
        /\ RowsWithId(id) # {}
        /\ Unmarshal(cache[id][1]) \notin DurableStates

\* C10: a GetAnalysis/FetchAnalysis of the id StartAnalysis returned, with no
\* write to the record in between, returns the same id, url and created_at and
\* status requested, from the cache or from the durable store; it fails only
\* when the durable query itself fails, never as a missing record.
C10_ReadYourStart ==
    \A p \in Procs :
        /\ op[p] = "GetAnalysis" /\ pc[p] = "done"
        /\ started[p] # Nil /\ started[p][1].ID = arg[p].id
        => IF ret[p].err = NoError
           THEN /\ ret[p].analysis[1].ID = started[p][1].ID
                /\ ret[p].analysis[1].URL = started[p][1].URL
                /\ ret[p].analysis[1].CreatedAt = started[p][1].CreatedAt
                /\ ret[p].analysis[1].Status = StatusRequested
                /\ started[p][1].Status = StatusRequested
           ELSE ErrorsIs(ret[p].err, "failed to query analysis")

C10_Witness ==
    \E p \in Procs :
        /\ op[p] = "GetAnalysis" /\ pc[p] = "done"
        /\ started[p] # Nil /\ started[p][1].ID = arg[p].id
        /\ ret[p].err = NoError /\ Len(calls[p]) = 3

-----------------------------------------------------------------------------
(* Properties of the link checker *)

\* The goroutines that hold a slot and are inside checkSingleLink
InFlight == {i \in Workers : check.pc[i] \in {"execute", "network"}}

\* C11: during a CheckAccessibility call the number of probes in flight
\* (goroutines holding a slot, inside checkSingleLink) never exceeds
\* MaxConcurrentChecks.
C11_BoundedProbes == Cardinality(InFlight) <= MaxConcurrentChecks

\* Every slot is taken while another goroutine waits for one
C11_Witness ==
    /\ Cardinality(InFlight) = MaxConcurrentChecks
    /\ \E i \in Workers : check.pc[i] = "acquire"

\* The probes of the call that reported their link inaccessible
Reported == {i \in Workers : check.result[i] # Nil}

\* C12: CheckAccessibility returns only after every goroutine it spawned has
\* finished, and what it returns holds exactly one entry for each probed link
\* whose probe reported it inaccessible, none lost and none twice.
C12_FanIn ==
    check.status = "returned" =>
        /\ \A i \in Workers : check.pc[i] = "done"
        /\ Len(check.ret) = Cardinality(Reported)
        /\ \A i \in Reported :
              Cardinality({k \in 1..Len(check.ret) :
                              check.ret[k] = check.result[i][1]}) = 1

\* A call returned two entries
C12_Witness ==
    /\ check.status = "returned"
    /\ Cardinality(Reported) = 2
    /\ Len(check.ret) = 2

\* The elements of links[1..n] that are external and, with parsable set,
\* whose URL parses, each URL at its first such occurrence, in input order
RECURSIVE Restricted(_, _, _)
Restricted(links, n, parsable) ==
    IF n = 0 THEN <<>>
    ELSE LET kept(l) == /\ l.Type = LinkTypeExternal
                        /\ parsable => UrlParse(l.URL)[2] = Nil
             before == Restricted(links, n - 1, parsable)
         IN  IF /\ kept(links[n])
                /\ \A j \in 1..(n - 1) :
                      ~ (kept(links[j]) /\ links[j].URL = links[n].URL)
             THEN Append(before, links[n]) ELSE before

FirstN(s, n) == IF Len(s) > n THEN SubSeq(s, 1, n) ELSE s

\* C13 as stated: the links probed by a call are the first MaxLinksToCheck
\* elements, in input order, of the input restricted to external links with
\* duplicate URLs removed.
C13_ProbedAreExternalDistinct ==
    check.status = "running" =>
        check.links = FirstN(Restricted(check.input, Len(check.input), FALSE),
                             MaxLinksToCheck)

\* C13, amended: the links probed by a call are the first MaxLinksToCheck
\* elements, in input order, of the input restricted to external links whose
\* URL parses, with duplicate URLs removed; no internal link is probed and no
\* URL is probed twice.
C13_ProbedAreParsableExternalDistinct ==
    check.status = "running" =>
        /\ check.links = FirstN(Restricted(check.input, Len(check.input), TRUE),
                                MaxLinksToCheck)
        /\ \A i \in Workers : check.links[i].Type # LinkTypeInternal
        /\ \A i, j \in Workers :
              check.links[i].URL = check.links[j].URL => i = j

\* A call whose input repeats a URL and has more links to check than the limit
C13_Witness ==
    /\ check.status = "running"
    /\ Len(check.links) = MaxLinksToCheck
    /\ Len(check.input) > MaxLinksToCheck
    /\ \E i, j \in 1..Len(check.input) :
          i # j /\ check.input[i].URL = check.input[j].URL

\* The probes of the call that have come to their result
Decided == {i \in Workers : check.pc[i] \in {"append", "release", "done"}}

\* C14: a probe yields an entry with the response status when that status is
\* >= 400, with status 503 when the breaker rejected the call because it is
\* open, and with status 0 and the error text when the probe failed at network
\* level; it yields no entry exactly when the probe obtained a status < 400.
C14_ProbeOutcome ==
    \A i \in Decided :
        LET pr == check.probe[i]
            entry == check.result[i]
            obtained == pr.rejected = "" /\ ~ pr.neterr
        IN  /\ entry # Nil => entry[1].URL = check.links[i].URL
            /\ (obtained /\ pr.status >= 400) =>
                  entry # Nil /\ entry[1].StatusCode = pr.status
            /\ pr.rejected = "circuit breaker is open" =>
                  entry # Nil /\ entry[1].StatusCode = 503
            /\ pr.neterr =>
                  /\ entry # Nil
                  /\ entry[1].StatusCode = 0
                  /\ entry[1].Error = "connection refused"
            /\ entry = Nil <=> (obtained /\ pr.status < 400)

\* A probe was rejected by the open breaker and produced the 503 entry
C14_Witness ==
    \E i \in Decided :
        /\ check.probe[i].rejected = "circuit breaker is open"
        /\ check.result[i] # Nil
        /\ check.result[i][1].StatusCode = 503

-----------------------------------------------------------------------------
(* Properties of the breakers *)

\* requests >= 3 and failures/requests >= 0.6 for the fetcher's breaker,
\* requests >= 5 and failures/requests >= 0.8 for the link checker's
Threshold(name, requests, failures) ==
    IF name = "web-page-fetcher"
    THEN requests >= 3 /\ 10 * failures >= 6 * requests
    ELSE requests >= 5 /\ 10 * failures >= 8 * requests

NoneInFlight(e) == \A p \in Procs : e.inflight[p] = Nil

\* C15 as stated: the breaker goes from closed to open when, within the
\* counting window, the request count and the failure ratio reach the
\* threshold, and it stays closed while they do not.
C15_OpensAtThreshold ==
    [][/\ (executing'.cb.state = StateClosed /\ NoneInFlight(executing')) =>
              ~ Threshold(executing'.name, executing'.cb.counts.Requests,
                          executing'.cb.counts.TotalFailures)
       /\ (executing.cb.state = StateClosed /\ executing'.cb.state = StateOpen) =>
              Threshold(executing.name, executing.cb.counts.Requests,
                        executing.cb.counts.TotalFailures + 1)]_vars

\* C15, amended: the breaker goes from closed to open exactly when a request
\* fails while it is closed and, counting that failure, the window's request
\* count and failure ratio reach the threshold; otherwise it stays closed (a
\* success that leaves the counts at the threshold does not open it).
C15_OpensOnFailureAtThreshold ==
    [][executing.cb.state = StateClosed =>
          (executing'.cb.state = StateOpen <=>
              /\ \E p \in Procs : /\ executing.inflight[p] # Nil
                                  /\ executing'.inflight[p] = Nil
              /\ executing'.failed
              /\ Threshold(executing.name, executing.cb.counts.Requests,
                           executing.cb.counts.TotalFailures + 1))]_vars

\* The link checker's breaker has opened
C15_Witness ==
    /\ executing.name = "link-checker"
    /\ executing.cb.state = StateOpen

-----------------------------------------------------------------------------
(* Properties of the fetcher *)

\* Fetch call p leaves circuitBreaker.Execute's admission in this step
Admission(p) == fetch[p].pc = "execute" /\ fetch'[p].pc # "execute"

CircuitBreakerOpenError == NewDomainError("CIRCUIT_BREAKER_OPEN", 503)

\* C16: while the fetcher's breaker is open, a Fetch call with a valid URL
\* fails at once with the CIRCUIT_BREAKER_OPEN error (status 503) and sends no
\* request to the network.
C16_OpenFailsFast ==
    [][\A p \in Procs :
          (/\ Admission(p)
           /\ fetcherCB.state = StateOpen
           /\ clock <= fetcherCB.expiry) =>
              /\ fetch'[p].pc = "done"
              /\ fetch'[p].ret = <<Nil, Ptr(CircuitBreakerOpenError)>>
              /\ ~ fetch'[p].requested]_vars

\* A Fetch call was answered with CIRCUIT_BREAKER_OPEN
C16_Witness ==
    \E p \in Procs :
        /\ fetch[p].pc = "done"
        /\ fetch[p].ret = <<Nil, Ptr(CircuitBreakerOpenError)>>

\* C17: the breaker opens with its expiry the configured Timeout ahead; once
\* the clock has passed it, the next Fetch call finds the breaker half-open
\* and is sent to the network instead of failing fast.
C17_HalfOpenAfterCooldown ==
    [][/\ (fetcherCB.state # StateOpen /\ fetcherCB'.state = StateOpen) =>
              fetcherCB'.expiry = clock + CBTimeout
       /\ \A p \in Procs :
             (/\ Admission(p)
              /\ fetcherCB.state = StateOpen
              /\ clock > fetcherCB.expiry) =>
                 /\ fetcherCB'.state = StateHalfOpen
                 /\ fetch'[p].pc = "network"
                 /\ fetch'[p].requested]_vars

\* A Fetch call is on the network under the half-open breaker
C17_Witness ==
    /\ fetcherCB.state = StateHalfOpen
    /\ \E p \in Procs : fetch[p].pc = "network" /\ fetch[p].requested

\* C18: Fetch returns either page content or a typed domain error with one of
\* the codes INVALID_URL, URL_NOT_REACHABLE, CIRCUIT_BREAKER_OPEN and
\* RESPONSE_TOO_LARGE, whatever the state of the breaker, concurrent calls
\* during half-open included; it never returns an untyped error.
C18_TypedErrors ==
    \A p \in Procs :
        fetch[p].pc = "done" =>
            LET content == fetch[p].ret[1]
                err == fetch[p].ret[2]
            IN  \/ content # Nil /\ err = Nil
                \/ /\ content = Nil
                   /\ err # Nil
                   /\ err[1].typed
                   /\ err[1].Code \in {"INVALID_URL", "URL_NOT_REACHABLE",
                                        "CIRCUIT_BREAKER_OPEN", "RESPONSE_TOO_LARGE"}

\* url.URL.Hostname(): the host without port and brackets
Hostname(host) ==
    LET c == PortColon(host)
        noPort == IF c = 0 THEN host ELSE SubSeq(host, 1, c - 1)
    IN  IF Len(noPort) >= 2 /\ noPort[1] = "[" /\ noPort[Len(noPort)] = "]"
        THEN SubSeq(noPort, 2, Len(noPort) - 1) ELSE noPort

\* The hosts the fetcher must not reach: localhost, 127.0.0.1, ::1, 0.0.0.0 and
\* the addresses of 10.0.0.0/8, 172.16.0.0/12 and 192.168.0.0/16
DenotesPrivateOrLocal(hostname) ==
    LET h == ToLowerAll(hostname)
    IN  \/ h \in privateHosts
        \/ /\ Len(h) = 7
           /\ h[2] = "." /\ h[4] = "." /\ h[6] = "."
           /\ \/ h[1] = "10"
              \/ h[1] = "192" /\ h[3] = "168"
              \/ h[1] = "172" /\ <<"172", ".", h[3], ".">> \in privatePrefixes

MustReject(raw) ==
    \/ raw = EmptyURL
    \/ ParseScheme(raw) \notin {"http", "https"}
    \/ ParseHost(raw) = <<>>
    \/ DenotesPrivateOrLocal(Hostname(ParseHost(raw)))

\* C19: validateURL rejects the empty URL, a scheme other than http and https,
\* a missing host and every host that denotes a local or private address,
\* with or without a port and in brackets; it accepts https://example.com; and
\* Fetch sends no request to the network for a rejected URL.
C19_RejectsPrivateHosts ==
    \A p \in Procs :
        fetch[p].pc # "idle" =>
            /\ MustReject(fetch[p].url) =>
                  /\ fetch[p].pc = "done"
                  /\ fetch[p].ret = <<Nil, Ptr(NewInvalidURLError)>>
                  /\ ~ fetch[p].requested
            /\ fetch[p].url = ExampleCom =>
                  fetch[p].ret # <<Nil, Ptr(NewInvalidURLError)>>
            /\ fetch[p].ret = <<Nil, Ptr(NewInvalidURLError)>> =>
                  ~ fetch[p].requested

\* C20: the timeout passed to one Fetch call applies to that call only: every
\* call is sent under its own timeout, or under the fetcher's default timeout
\* when it passes none, whatever concurrent and earlier calls passed.
C20_TimeoutPerCall ==
    \A p \in Procs :
        fetch[p].requested =>
            fetch[p].used = IF fetch[p].timeout > 0 THEN fetch[p].timeout
                            ELSE defaultTimeout

-----------------------------------------------------------------------------
(* Properties of the HTML parser *)

\* The hrefs of the page's anchors that stand for a link
AnchorHrefs(html) ==
    {html[i].href[1] : i \in {j \in 1..Len(html) :
        /\ html[j].tag = "a"
        /\ html[j].href # Nil
        /\ html[j].href[1] # <<>>
        /\ UrlParse(html[j].href[1])[2] = Nil
        /\ ~ SkippedHref(html[j].href[1])}}

\* C21: ExtractLinks returns exactly one Link per distinct resolved absolute
\* URL among the page's anchors that carry an href, skipping empty hrefs,
\* bare fragments and javascript:/mailto:/tel: hrefs, and a link is internal
\* exactly when its host equals the base URL's host.
C21_OneLinkPerAnchorURL ==
    (extract.called /\ extract.ret[2] = Nil) =>
        LET links == extract.ret[1]
            base == extract.baseURL
            hrefs == AnchorHrefs(extract.html)
        IN  /\ {links[i].URL : i \in 1..Len(links)}
                 = {ResolveReference(base, h) : h \in hrefs}
            /\ \A i, j \in 1..Len(links) : links[i].URL = links[j].URL => i = j
            /\ \A i \in 1..Len(links) :
                 links[i].Type = LinkTypeInternal <=>
                    \E h \in hrefs : /\ ResolveReference(base, h) = links[i].URL
                                     /\ ResolvedHost(base, h) = ParseHost(base)

-----------------------------------------------------------------------------
(* Properties of the event stream *)

\* The goroutine behind the stream of p has ended with a FetchAnalysis error
RetrievalFailed(p) ==
    /\ op[p] = "FetchAnalysisEvents"
    /\ pc[p] = "done"
    /\ ret[p].err # NoError

Wrote(p, event) == \E i \in 1..Len(stream[p].written) : stream[p].written[i].event = event

\* C22: when the analysis behind an event stream cannot be retrieved (no such
\* id, or a durable-store failure), the stream's consumer receives an event
\* tagged as an error, and the stream is never ended as a normal one without it.
C22_ErrorEventOnFailure ==
    \A p \in Procs :
        (stream[p].handler = "sse" /\ stream[p].pc = "returned"
            /\ ~ stream[p].cancelled /\ RetrievalFailed(p)) =>
                Wrote(p, "error") /\ ~ Wrote(p, "stream_end")

TerminalTypes == {EventTypeCompleted, EventTypeFailed}

\* The analysis events written on the connection of p, by kind
WrittenTerminal(p) ==
    {i \in 1..Len(stream[p].written) :
        /\ stream[p].written[i].event = "analysis_event"
        /\ stream[p].written[i].type \in TerminalTypes}

WrittenNonTerminal(p) ==
    {i \in 1..Len(stream[p].written) :
        /\ stream[p].written[i].event = "analysis_event"
        /\ stream[p].written[i].type \notin TerminalTypes}

\* The step is one of the connection p already has
SameConnection(p) == stream[p].handler = "sse" /\ stream[p].pc # "returned"

\* The step writes an analysis event on the connection of p
WritesAnalysisEvent(p) ==
    /\ Len(stream'[p].written) = Len(stream[p].written) + 1
    /\ stream'[p].written[Len(stream'[p].written)].event = "analysis_event"

\* "connected" is the first thing written on every connection
ConnectedFirst ==
    \A p \in Procs :
        stream[p].handler = "sse" =>
            stream[p].written # <<>> /\ stream[p].written[1].event = "connected"

\* After a terminal event nothing more is written and the handler only waits
\* the grace delay and returns
TerminalEndsStream(p) ==
    (SameConnection(p) /\ WrittenTerminal(p) # {}) =>
        /\ stream[p].pc = "grace"
        /\ stream'[p].pc \in {"grace", "returned"}
        /\ stream'[p].written = stream[p].written

\* After a non-terminal event the stream stays open until the channel is
\* closed, and then "stream_end" is written and the handler returns
NonTerminalKeepsOpen(p) ==
    (SameConnection(p) /\ WrittenNonTerminal(p) # {} /\ ~ stream[p].cancelled) =>
        /\ stream'[p].pc \in {"loop", "returned"}
        /\ stream'[p].pc = "returned" =>
              /\ events[p].closed
              /\ stream'[p].written = Append(stream[p].written, SSE("stream_end", ""))

C26_ChannelEventuallyClosed ==
    \A p \in Procs :
        [](events[p].made => <>(events[p].closed /\ pc[p] = "done"))

-----------------------------------------------------------------------------
(* Properties of one link probe *)

\* C25: each link probe issues a HEAD request first and a GET request only if
\* the HEAD request failed; when the fallback is taken the probe's outcome is
\* that of the GET, so a link whose HEAD fails but whose GET returns a status
\* < 400 is not reported inaccessible; the HEAD and its GET fallback count as
\* one request toward the link checker's breaker.
C25_HeadThenGetFallback ==
    /\ [](\A i \in Workers :
            LET pr == check.probe[i]
                rq == pr.requests
            IN  rq # <<>> =>
                  /\ rq[1].method = "HEAD"
                  /\ Len(rq) <= 2
                  /\ Len(rq) = 2 =>
                        /\ rq[1].err
                        /\ rq[2].method = "GET"
                        /\ pr.neterr <=> rq[2].err
                        /\ ~ rq[2].err => pr.status = rq[2].status
                        /\ (~ rq[2].err /\ rq[2].status < 400) => check.result[i] = Nil)
    /\ [][\A i \in Workers :
            /\ (check.pc[i] = "execute" /\ check'.pc[i] = "network") =>
                  linkCB'.counts.Requests =
                      currentState(linkCB, LinkCheckerSettings, clock).counts.Requests + 1
            /\ (check.pc[i] = "network" /\ check'.pc[i] # "network") =>
                  linkCB'.counts.Requests \in {0, linkCB.counts.Requests}]_vars

\* A probe whose HEAD failed and whose GET brought a status below 400
C25_Witness ==
    \E i \in Workers :
        /\ check.pc[i] = "done"
        /\ Len(check.probe[i].requests) = 2
        /\ ~ check.probe[i].requests[2].err
        /\ check.probe[i].requests[2].status < 400
        /\ check.result[i] = Nil

-----------------------------------------------------------------------------
(* Properties of the slot pool *)

\* The goroutines of the call that wait for a slot, and those that hold one
Waiting == {i \in Workers : check.pc[i] = "acquire"}

Holding == {i \in Workers : check.pc[i] \in {"execute", "network", "append", "release"}}

\* Goroutines wait for a slot, none is free and no goroutine is there to free
\* one: no step of the call is possible any more and wg.Wait() never returns
BlockedOnSlots ==
    /\ check.status = "running"
    /\ Waiting # {}
    /\ Holding = {}
    /\ ~ SlotFree(check.semaphore)

\* C23: after the context of a CheckAccessibility call is cancelled, the call
\* goes on to return with none of its goroutines left running or blocked: in
\* particular no goroutine stays blocked on the slot pool.
C23_CancelledCallNotBlocked == ctxDone => ~ BlockedOnSlots

\* C29: CheckAccessibility terminates for every non-empty input and every
\* configured MaxConcurrentChecks >= 0 when each probe returns: every spawned
\* goroutine gets a slot, so the call is never left with goroutines waiting
\* for a slot that nothing will free, and the final wait does not block forever.
C29_EveryGoroutineGetsSlot ==
    check.status = "running" =>
        \/ WaitDone(check.pc)
        \/ Holding # {}
        \/ \E i \in Waiting : SlotFree(check.semaphore)

-----------------------------------------------------------------------------
(* FetchAnalysis calls racing a status update of the durable store *)

\* The calls of FetchAnalysis that have returned an analysis
Returned == {p \in Procs : op[p] = "GetAnalysis" /\ pc[p] = "done" /\ ret[p].analysis # Nil}

\* The latest status among those the finished calls returned
LatestReturned ==
    IF Returned = {} THEN 0
    ELSE LET ranks == {StatusRank(ret[p].analysis[1].Status) : p \in Returned}
         IN  CHOOSE r \in ranks : \A q \in ranks : q <= r

\* A caller enters FetchAnalysis; what earlier calls returned is noted
FetchAnalysisCall(p) ==
    /\ \E id \in Ids : FetchAnalysis(p, id)
    /\ floor' = [floor EXCEPT ![p] = LatestReturned]
    /\ UNCHANGED <<extract, stream, lcConfig, ctxDone, run>>

\* An UpdateAnalysis that moves the record's status forward
UpdateForward(a) ==
    /\ \A row \in RowsWithId(a.ID) : StatusRank(a.Status) > StatusRank(row.status)
    /\ UpdateAnalysis(a)

\* One stored record, and the record of the states the store has held
InitRegress ==
    /\ analysis \in StoredRows
    /\ issued = {row.id : row \in analysis}
    /\ history = [on |-> TRUE, states |-> {ScanRow(row) : row \in analysis}]
    /\ cache = [id \in Ids |-> Nil]
    /\ pc = [p \in Procs |-> "idle"]
    /\ op = [p \in Procs |-> "none"]
    /\ arg = [p \in Procs |-> NoArg]
    /\ local = [p \in Procs |-> Nil]
    /\ calls = [p \in Procs |-> <<>>]
    /\ ret = [p \in Procs |-> NoRet]
    /\ started = [p \in Procs |-> Nil]
    /\ events = [p \in Procs |-> NoChan]
    /\ data = <<>>
    /\ InitAdapters
    /\ InitRuntime

NextRegress ==
    \/ \E p \in Procs : FetchAnalysisCall(p)
    \/ \E p \in Procs : CacheFind(p)
    \/ \E p \in Procs : DurableFind(p)
    \/ \E p \in Procs : CacheSet(p)
    \/ \E a \in AnalysisInputs : UpdateForward(a)

SpecRegress == InitRegress /\ [][NextRegress]_vars

\* C27 (as claimed): for one analysis id the statuses FetchAnalysis returns
\* never regress: no call returns an earlier status than one that a call which
\* had finished before it started returned.
C27_ReturnedStatusNeverRegresses ==
    \A p \in Returned : StatusRank(ret[p].analysis[1].Status) >= floor[p]

\* C27 (amended): every status FetchAnalysis returns is one the durable store
\* has held for that id, though not always the latest: a snapshot read before
\* the update can be written to the cache over a newer one and returned later.
C27_ReturnedStatusWasHeld ==
    \A p \in Returned :
        \E h \in history.states :
            /\ h.ID = ret[p].analysis[1].ID
            /\ h.Status = ret[p].analysis[1].Status

\* A call returned, from the cache, a status the store held only before an
\* update
C27_Witness ==
    \E p \in Returned :
        /\ Len(calls[p]) = 1
        /\ \E row \in RowsWithId(ret[p].analysis[1].ID) :
              StatusRank(row.status) > StatusRank(ret[p].analysis[1].Status)

-----------------------------------------------------------------------------
(* Properties of the fetcher's breaker accounting *)

\* Fetch call p is turned away by validateURL in this step
Rejection(p) ==
    /\ fetch[p].pc \in {"idle", "done"}
    /\ fetch'[p] # fetch[p]
    /\ fetch'[p].pc = "done"
    /\ fetch'[p].ret = <<Nil, Ptr(NewInvalidURLError)>>

\* Fetch call p, admitted by the breaker, ends in this step
Completion(p) == fetch[p].pc = "network" /\ fetch'[p].pc = "done"

\* The breaker as the ending call finds it
Found == currentState(fetcherCB, FetcherSettings, clock)

\* The step adds one failure, or one success, to what the breaker had counted:
\* the counter goes up by one, or the count makes the breaker change state
CountsOneFailure ==
    \/ /\ fetcherCB'.state = Found.state
       /\ fetcherCB'.counts.TotalFailures = Found.counts.TotalFailures + 1
       /\ fetcherCB'.counts.TotalSuccesses = Found.counts.TotalSuccesses
    \/ Found.state # StateOpen /\ fetcherCB'.state = StateOpen

CountsOneSuccess ==
    \/ /\ fetcherCB'.state = Found.state
       /\ fetcherCB'.counts.TotalSuccesses = Found.counts.TotalSuccesses + 1
       /\ fetcherCB'.counts.TotalFailures = Found.counts.TotalFailures
    \/ Found.state = StateHalfOpen /\ fetcherCB'.state = StateClosed

\* C28 (as claimed): a Fetch call rejected by validateURL leaves the breaker
\* as it was; every admitted call that ends in a network failure, a non-2xx
\* status or an oversized body is counted as one failure, and every admitted
\* call that returns content as one success.
C28_EveryOutcomeCounted ==
    [][\A p \in Procs :
          /\ Rejection(p) => fetcherCB' = fetcherCB
          /\ (Completion(p) /\ fetch'[p].ret[2] # Nil) => CountsOneFailure
          /\ (Completion(p) /\ fetch'[p].ret[2] = Nil) => CountsOneSuccess]_vars

\* C28 (amended): as above for the calls that end while the breaker is still
\* in the generation that admitted them; the outcome of a call that ends after
\* the breaker began a new generation (its interval ran out, or it changed
\* state) is dropped and counts neither as a failure nor as a success.
C28_OutcomeCountedInGeneration ==
    [][\A p \in Procs :
          /\ Rejection(p) => fetcherCB' = fetcherCB
          /\ (Completion(p) /\ Found.generation = fetch[p].generation) =>
                IF fetch'[p].ret[2] # Nil THEN CountsOneFailure ELSE CountsOneSuccess
          /\ (Completion(p) /\ Found.generation # fetch[p].generation) =>
                fetcherCB' = Found]_vars

\* A call ended in a failure that the breaker has counted
C28_Witness ==
    \E p \in Procs :
        /\ fetch[p].pc = "done"
        /\ fetch[p].requested
        /\ fetch[p].ret[2] # Nil
        /\ fetcherCB.state = StateClosed
        /\ fetcherCB.counts.TotalFailures >= 1

-----------------------------------------------------------------------------
(* Properties of the process's shutdown *)

\* A signal is delivered in this step
Delivered(sig) ==
    /\ Len(run'.signals) = Len(run.signals) + 1
    /\ run'.signals[Len(run'.signals)] = sig

\* C30: Run has its shutdown and reload signal handling registered while the
\* HTTP server is serving, and a SIGINT or SIGTERM delivered while the server
\* runs leads to HTTPServer.Shutdown, then the tracer shutdown, then the
\* cancellation of the server context, then the cleanup of the cache client,
\* with the config monitor stopped once the context is cancelled.
C30_SignalShutsDownGracefully ==
    /\ [](Serving => Signals \subseteq run.notified)
    /\ [][\A sig \in {"SIGINT", "SIGTERM"} :
            (Serving /\ Delivered(sig)) =>
                /\ run'.process = "alive"
                /\ run'.did = run.did \o ShutdownSequence
                /\ ~ run'.monitor]_vars

====
